---- MODULE Spec2Model ----
(***************************************************************************)
(* Model of the level simulation of cooking_thief (src/src/level.rs):      *)
(* Level::load builds the level, update_level advances it by one frame.    *)
(*                                                                         *)
(* Numbers.  The program computes in f32.  The model computes in fixed     *)
(* point: a length is an integer number of 1/UNIT of the room height (the  *)
(* room is RATIO_W_H x 1.0), a time is an integer number of milliseconds.  *)
(* A float NaN (the extent of a rectangle along the zero vector) is the    *)
(* value NaN, and every comparison with it is false, as in IEEE-754.       *)
(***************************************************************************)
EXTENDS Integers, Sequences, FiniteSets, TLC

\* ------------------------------------------------------------------ numbers
UNIT == 4000
SECOND == 1000

RATIO_W_H == (16 * UNIT) \div 9
BALL_SPEED == (175 * UNIT) \div 100
PLAYER_RADIUS == UNIT \div 40
BALL_RADIUS == UNIT \div 100
WALL_SIZE == UNIT \div 50
SPEED_STEPS == 10
PLAYER_MAX_SPEED == (65 * UNIT) \div 100
PLAYER_RELOAD == SECOND \div 2
SLASH_LEN == UNIT \div 50
HEAL_TIME == 5 * SECOND

Abs(a) == IF a < 0 THEN -a ELSE a
Sgn(a) == IF a < 0 THEN -1 ELSE IF a > 0 THEN 1 ELSE 0

\* f32 division, rounded toward zero on both sides of zero
TruncDiv(a, b) == Sgn(a) * (Abs(a) \div b)

\* macroquad clamp(value, min, max)
clamp(value, min, max) ==
    IF value < min THEN min ELSE IF value > max THEN max ELSE value

RECURSIVE SqrtIter(_, _)
SqrtIter(n, x) ==
    LET y == (x + n \div x) \div 2
    IN  IF y >= x THEN x ELSE SqrtIter(n, y)

ISqrt(n) == IF n <= 0 THEN 0 ELSE SqrtIter(n, n)

\* ------------------------------------------------------------------ vectors
Vec2(x, y) == <<x, y>>
VAdd(a, b) == <<a[1] + b[1], a[2] + b[2]>>
VSub(a, b) == <<a[1] - b[1], a[2] - b[2]>>
VNeg(a) == <<-a[1], -a[2]>>

\* Vec2::length
length(v) ==
    IF v[1] = 0 THEN Abs(v[2])
    ELSE IF v[2] = 0 THEN Abs(v[1])
    ELSE LET n == v[1] * v[1] + v[2] * v[2]
         IN  SqrtIter(n, Abs(v[1]) + Abs(v[2]))

NaN == 0 - 1

\* v.normalize() * k; the zero vector normalizes to NaN components
NormalizeTimes(v, k) ==
    LET len == length(v)
    IN  IF len = 0 \/ k = NaN THEN <<NaN, NaN>>
        ELSE <<TruncDiv(v[1] * k, len), TruncDiv(v[2] * k, len)>>

\* v.normalize_or_zero() * k
NormalizeOrZeroTimes(v, k) ==
    LET len == length(v)
    IN  IF len = 0 THEN <<0, 0>>
        ELSE <<TruncDiv(v[1] * k, len), TruncDiv(v[2] * k, len)>>

\* float addition and comparison with NaN
FAdd(a, b) == IF a = NaN \/ b = NaN THEN NaN ELSE a + b
FLess(a, b) == a # NaN /\ b # NaN /\ a < b
FLessEq(a, b) == a # NaN /\ b # NaN /\ a <= b

\* ------------------------------------------------------------------ health
Full == "Full"
Low == "Low"
Dead == "Dead"
Health == {Full, Low, Dead}

\* a decrease that wraps around from Dead
decrease_wraps(h) == IF h = Full THEN Low ELSE IF h = Low THEN Dead ELSE Full

decrease(h) == IF h = Full THEN Low ELSE Dead

\* ------------------------------------------------------------------ forms
\* Form::Rect { width, height }; level.rs builds no Form::Circle
Rect(width, height) == [width |-> width, height |-> height]

x_r(form) == form.width
y_r(form) == form.height

\* Form::direction_len for a Rect: the smaller of width/|n.x| and height/|n.y|
\* of the normalized n (an infinite ratio when the component is 0)
direction_len(form, n) ==
    LET len == length(n)
        ax == Abs(n[1])
        ay == Abs(n[2])
    IN  IF len = 0 THEN NaN
        ELSE IF ay = 0 THEN TruncDiv(form.width * len, ax)
        ELSE IF ax = 0 THEN TruncDiv(form.height * len, ay)
        ELSE IF form.width * ay < form.height * ax
             THEN TruncDiv(form.width * len, ax)
             ELSE TruncDiv(form.height * len, ay)

PlayerHiddenForm == Rect((15 * PLAYER_RADIUS) \div 10, (15 * PLAYER_RADIUS) \div 10)
PlayerVisibleForm == Rect(PLAYER_RADIUS, (15 * PLAYER_RADIUS) \div 10)
PlayerDeadForm == Rect((15 * PLAYER_RADIUS) \div 10, (9 * PLAYER_RADIUS) \div 10)
EnemyForm == Rect(PLAYER_RADIUS, (17 * PLAYER_RADIUS) \div 10)
EnemyReloadForm == Rect((115 * PLAYER_RADIUS) \div 100, (17 * PLAYER_RADIUS) \div 10)
EnemyDeadForm == Rect((17 * PLAYER_RADIUS) \div 10, (9 * PLAYER_RADIUS) \div 10)
CrateForm == Rect((15 * PLAYER_RADIUS) \div 10, (15 * PLAYER_RADIUS) \div 10)

\* ------------------------------------------------------------------ items
Sword == "Sword"
Key == "Key"
Vegetable(name) == name
IsVegetable(item) == item \notin {Sword, Key}

\* ------------------------------------------------------------------ phrases
NoPhrase == [text |-> "", time |-> 0]
Phrase(text, time) == [text |-> text, time |-> time]

\* ------------------------------------------------------------------ doors
North == "North"
South == "South"
East == "East"
West == "West"
Direction == {North, South, East, West}

inverse(d) ==
    CASE d = North -> South
      [] d = South -> North
      [] d = East -> West
      [] d = West -> East

NoDoor == [direction |-> "None", to |-> 0 - 1]

\* a door that shows the same direction from both of its sides
door_from_one_way(door, from) ==
    IF from = door.from THEN [direction |-> door.direction, to |-> door.to]
    ELSE IF from = door.to THEN [direction |-> door.direction, to |-> door.from]
    ELSE NoDoor

\* Door::door_from: NoDoor models None
door_from(door, from) ==
    IF from = door.from THEN [direction |-> door.direction, to |-> door.to]
    ELSE IF from = door.to THEN [direction |-> inverse(door.direction), to |-> door.from]
    ELSE NoDoor

Door(from, to, direction, closed, entrance) ==
    [direction |-> direction, from |-> from, to |-> to,
     closed |-> closed, entrance |-> entrance, playing |-> 0]

\* ------------------------------------------------------------------ enemies' states
Idle == [tag |-> "Idle", pos |-> <<0, 0>>, form |-> Rect(0, 0), timer |-> 0]
Fight(pos, form) == [tag |-> "Fight", pos |-> pos, form |-> form, timer |-> 0]
LastSeen(pos, timer) == [tag |-> "LastSeen", pos |-> pos, form |-> Rect(0, 0), timer |-> timer]

\* Position::move_to
move_to(self, position) ==
    IF length(VSub(self, position)) < (15 * PLAYER_RADIUS) \div 10 THEN <<0, 0>>
    ELSE <<Sgn(position[1] - self[1]), Sgn(position[2] - self[2])>>

\* ------------------------------------------------------------------ frame input
\* What one update_level call reads from macroquad: the frame time, the keys,
\* the mouse position (already clamped to the room by player_action) and buttons.
Input(dt, move, mouse, space, attack, interact, restart) ==
    [dt |-> dt, move |-> move, mouse |-> mouse, space |-> space,
     attack |-> attack, interact |-> interact, restart |-> restart]

\* MoveAction; sight is kept before normalization and normalized where it is used
MoveAction(move_direction, sight) == [move_direction |-> move_direction, sight |-> sight]
DefaultMoveAction == MoveAction(<<0, 0>>, <<1, 0>>)

Ball(position, velocity, room, item) ==
    [position |-> position, velocity |-> velocity, room |-> room, item |-> item]

CantAttackText(item) ==
    IF item = Sword THEN "I can't attack with sword" ELSE "I can't attack with key"

\* ------------------------------------------------------------------ player_action
ToggleVisible(player) ==
    IF player.visible
    THEN [player EXCEPT !.visible = FALSE, !.body.form = PlayerHiddenForm]
    ELSE [player EXCEPT !.visible = TRUE, !.body.form = PlayerVisibleForm]

\* an attack that does not wait for the reload timer
Attacks_while_reloading(player, in) == in.attack /\ player.visible

\* the attack branch is entered: button down, visible, reload timer exactly 0
Attacks(player, in) == in.attack /\ player.visible /\ player.reload = 0

\* a heal that leaves the timer where it ran out
Heal_keeps_timer(player, dt) ==
    IF player.health = Low
    THEN IF player.heal_time - dt <= 0
         THEN [player EXCEPT !.heal_time = player.heal_time - dt, !.health = Full]
         ELSE [player EXCEPT !.heal_time = player.heal_time - dt]
    ELSE player

\* a heal that waits until the timer is below 0
Heal_late(player, dt) ==
    IF player.health = Low
    THEN IF player.heal_time - dt < 0
         THEN [player EXCEPT !.heal_time = HEAL_TIME, !.health = Full]
         ELSE [player EXCEPT !.heal_time = player.heal_time - dt]
    ELSE player

Heal(player, dt) ==
    IF player.health = Low
    THEN IF player.heal_time - dt <= 0
         THEN [player EXCEPT !.heal_time = HEAL_TIME, !.health = Full]
         ELSE [player EXCEPT !.heal_time = player.heal_time - dt]
    ELSE player

player_action(player, balls, in) ==
    IF player.health = Dead
    THEN [player |-> [player EXCEPT !.body.form = PlayerDeadForm],
          balls |-> balls,
          action |-> DefaultMoveAction]
    ELSE
      LET sight == VSub(in.mouse, player.body.position)
          p1 == IF in.space THEN ToggleVisible(player) ELSE player
          throw == Attacks(p1, in) /\ IsVegetable(p1.item)
          p2 == IF Attacks(p1, in)
                THEN IF IsVegetable(p1.item)
                     THEN [p1 EXCEPT !.reload = PLAYER_RELOAD]
                     ELSE [p1 EXCEPT !.body.phrase =
                                       Phrase(CantAttackText(p1.item), 3 * SECOND)]
                ELSE p1
          balls2 == IF throw
                    THEN Append(balls,
                           Ball(VAdd(p1.body.position,
                                     NormalizeOrZeroTimes(sight, PLAYER_RADIUS)),
                                NormalizeOrZeroTimes(sight, BALL_SPEED),
                                p1.body.room, p1.item))
                    ELSE balls
      IN  [player |-> Heal(p2, in.dt),
           balls |-> balls2,
           action |-> MoveAction(in.move, sight)]

\* ------------------------------------------------------------------ enemy_action
touch_distance(player) ==
    IF player.health = Full THEN SLASH_LEN \div 2 ELSE SLASH_LEN \div 6

player_visible(enemy, player) ==
    LET diff == VSub(enemy.body.position, player.body.position)
    IN  \/ player.visible
        \/ FLess(length(diff),
                 FAdd(FAdd(direction_len(enemy.body.form, diff),
                           direction_len(player.body.form, diff)),
                      touch_distance(player)))

\* the enemy has contact with the player in this evaluation
Contact(enemy, player) ==
    player.body.room = enemy.body.room /\ player_visible(enemy, player)

\* a perception that starts the LastSeen timer at 0 when contact is lost
NextEnemyState_timer_from_zero(enemy, player, dt) ==
    IF player.health = Dead THEN [state |-> Idle, phrase |-> NoPhrase]
    ELSE IF Contact(enemy, player)
    THEN [state |-> Fight(player.body.position, player.body.form),
          phrase |-> IF enemy.state.tag # "Fight"
                     THEN Phrase("Here you are!", 1 * SECOND) ELSE NoPhrase]
    ELSE IF enemy.state.tag = "Fight"
    THEN [state |-> LastSeen(enemy.state.pos, 0),
          phrase |-> Phrase("Where is he?", 2 * SECOND)]
    ELSE IF enemy.state.tag = "Idle"
    THEN [state |-> Idle, phrase |-> NoPhrase]
    ELSE IF enemy.state.timer + dt > 5 * SECOND
    THEN [state |-> Idle, phrase |-> Phrase("Must've been wind", 2 * SECOND)]
    ELSE [state |-> LastSeen(enemy.state.pos, enemy.state.timer + dt),
          phrase |-> NoPhrase]

\* a perception whose LastSeen timer runs out at 5 s already
NextEnemyState_out_at_five(enemy, player, dt) ==
    IF player.health = Dead THEN [state |-> Idle, phrase |-> NoPhrase]
    ELSE IF Contact(enemy, player)
    THEN [state |-> Fight(player.body.position, player.body.form),
          phrase |-> IF enemy.state.tag # "Fight"
                     THEN Phrase("Here you are!", 1 * SECOND) ELSE NoPhrase]
    ELSE IF enemy.state.tag = "Fight"
    THEN [state |-> LastSeen(enemy.state.pos, dt),
          phrase |-> Phrase("Where is he?", 2 * SECOND)]
    ELSE IF enemy.state.tag = "Idle"
    THEN [state |-> Idle, phrase |-> NoPhrase]
    ELSE IF enemy.state.timer + dt >= 5 * SECOND
    THEN [state |-> Idle, phrase |-> Phrase("Must've been wind", 2 * SECOND)]
    ELSE [state |-> LastSeen(enemy.state.pos, enemy.state.timer + dt),
          phrase |-> NoPhrase]

\* a perception that greets the player in every frame with contact
NextEnemyState_greets_always(enemy, player, dt) ==
    IF player.health = Dead THEN [state |-> Idle, phrase |-> NoPhrase]
    ELSE IF Contact(enemy, player)
    THEN [state |-> Fight(player.body.position, player.body.form),
          phrase |-> Phrase("Here you are!", 1 * SECOND)]
    ELSE IF enemy.state.tag = "Fight"
    THEN [state |-> LastSeen(enemy.state.pos, dt),
          phrase |-> Phrase("Where is he?", 2 * SECOND)]
    ELSE IF enemy.state.tag = "Idle"
    THEN [state |-> Idle, phrase |-> NoPhrase]
    ELSE IF enemy.state.timer + dt > 5 * SECOND
    THEN [state |-> Idle, phrase |-> Phrase("Must've been wind", 2 * SECOND)]
    ELSE [state |-> LastSeen(enemy.state.pos, enemy.state.timer + dt),
          phrase |-> NoPhrase]

\* a perception that does not ask whether the player is Dead
NextEnemyState_ignores_death(enemy, player, dt) ==
    IF Contact(enemy, player)
    THEN [state |-> Fight(player.body.position, player.body.form),
          phrase |-> IF enemy.state.tag # "Fight"
                     THEN Phrase("Here you are!", 1 * SECOND) ELSE NoPhrase]
    ELSE IF enemy.state.tag = "Fight"
    THEN [state |-> LastSeen(enemy.state.pos, dt),
          phrase |-> Phrase("Where is he?", 2 * SECOND)]
    ELSE IF enemy.state.tag = "Idle"
    THEN [state |-> Idle, phrase |-> NoPhrase]
    ELSE IF enemy.state.timer + dt > 5 * SECOND
    THEN [state |-> Idle, phrase |-> Phrase("Must've been wind", 2 * SECOND)]
    ELSE [state |-> LastSeen(enemy.state.pos, enemy.state.timer + dt),
          phrase |-> NoPhrase]

\* the new perception state and the phrase it emits (NoPhrase: none)
NextEnemyState(enemy, player, dt) ==
    IF player.health = Dead THEN [state |-> Idle, phrase |-> NoPhrase]
    ELSE IF Contact(enemy, player)
    THEN [state |-> Fight(player.body.position, player.body.form),
          phrase |-> IF enemy.state.tag # "Fight"
                     THEN Phrase("Here you are!", 1 * SECOND) ELSE NoPhrase]
    ELSE IF enemy.state.tag = "Fight"
    THEN [state |-> LastSeen(enemy.state.pos, dt),
          phrase |-> Phrase("Where is he?", 2 * SECOND)]
    ELSE IF enemy.state.tag = "Idle"
    THEN [state |-> Idle, phrase |-> NoPhrase]
    ELSE IF enemy.state.timer + dt > 5 * SECOND
    THEN [state |-> Idle, phrase |-> Phrase("Must've been wind", 2 * SECOND)]
    ELSE [state |-> LastSeen(enemy.state.pos, enemy.state.timer + dt),
          phrase |-> NoPhrase]

\* the move action and the melee reach of the new state
EnemyMove(enemy) ==
    IF enemy.state.tag = "Idle"
    THEN MoveAction(move_to(enemy.body.position, enemy.post), <<1, 0>>)
    ELSE MoveAction(move_to(enemy.body.position, enemy.state.pos),
                    VSub(enemy.state.pos, enemy.body.position))

\* a reach that does not ask for the Fight state
slash_any_state(enemy) ==
    LET diff == VSub(enemy.state.pos, enemy.body.position)
    IN  FLess(length(diff),
              FAdd(FAdd(direction_len(enemy.body.form, diff),
                        direction_len(enemy.state.form, diff)),
                   SLASH_LEN))

slash(enemy) ==
    /\ enemy.state.tag = "Fight"
    /\ LET diff == VSub(enemy.state.pos, enemy.body.position)
       IN  FLess(length(diff),
                 FAdd(FAdd(direction_len(enemy.body.form, diff),
                           direction_len(enemy.state.form, diff)),
                      SLASH_LEN))

\* a hit that does not wait for the reload timer
Hits_while_reloading(enemy) == slash(enemy)

\* the melee hit happens: reach and the reload timer exactly 0
Hits(enemy) == slash(enemy) /\ enemy.reload = 0

TelegraphForm(reload) ==
    IF reload < SECOND \div 5 THEN EnemyForm ELSE EnemyReloadForm

\* the enemy with the new state assigned and the phrase the transition sets
WithState(enemy, nx) ==
    [enemy EXCEPT !.state = nx.state,
                  !.body.phrase = IF nx.phrase # NoPhrase THEN nx.phrase ELSE @]

\* the rest of a live enemy's action: the move, the hit and the telegraph form
Strike(enemy, player) ==
    [enemy |-> [enemy EXCEPT
                  !.reload = IF Hits(enemy) THEN PLAYER_RELOAD ELSE @,
                  !.body.form = TelegraphForm(IF Hits(enemy) THEN PLAYER_RELOAD
                                              ELSE enemy.reload)],
     player |-> IF Hits(enemy) THEN [player EXCEPT !.health = decrease(@)] ELSE player,
     action |-> EnemyMove(enemy)]

enemy_action(enemy, player, dt) ==
    IF enemy.health = Dead
    THEN [enemy |-> [enemy EXCEPT !.body.form = EnemyDeadForm],
          player |-> player,
          action |-> DefaultMoveAction]
    ELSE Strike(WithState(enemy, NextEnemyState(enemy, player, dt)), player)

\* enemies.iter_mut().map(enemy_action): the enemies in list order, each seeing
\* the player as the earlier ones left it
RECURSIVE EnemiesAct(_, _, _, _, _), EnemyActed(_, _, _, _, _)
EnemiesAct(enemies, player, dt, i, actions) ==
    IF i > Len(enemies)
    THEN [enemies |-> enemies, player |-> player, actions |-> actions]
    ELSE EnemyActed(enemies, enemy_action(enemies[i], player, dt), dt, i, actions)

\* enemy i has acted with result r: go on with the next one
EnemyActed(enemies, r, dt, i, actions) ==
    EnemiesAct([enemies EXCEPT ![i] = r.enemy], r.player, dt, i + 1,
               Append(actions, r.action))

\* ------------------------------------------------------------------ movement
\* a speed counter that is never clamped
SpeedAxis_unclamped(speed, d) ==
    LET s1 == speed + 2 * d
    IN  IF s1 < 0 THEN s1 + 1 ELSE IF s1 > 0 THEN s1 - 1 ELSE s1

\* the speed counter without the step toward zero
SpeedAxis_no_decay(speed, d) == clamp(speed + 2 * d, -SPEED_STEPS, SPEED_STEPS)

\* one axis of the speed counter: add 2*d, one step toward zero, clamp
SpeedAxis(speed, d) ==
    LET s1 == speed + 2 * d
        s2 == IF s1 < 0 THEN s1 + 1 ELSE IF s1 > 0 THEN s1 - 1 ELSE s1
    IN  clamp(s2, -SPEED_STEPS, SPEED_STEPS)

\* PLAYER_MAX_SPEED * speed / SPEED_STEPS * dt
Advance(speed, dt) == TruncDiv(PLAYER_MAX_SPEED * speed * dt, SPEED_STEPS * SECOND)

\* the "move body" closure of update_level
MoveBody(body, action, dt) ==
    LET sx == SpeedAxis(body.speed[1], action.move_direction[1])
        sy == SpeedAxis(body.speed[2], action.move_direction[2])
    IN  [body EXCEPT !.speed = <<sx, sy>>,
                     !.position = <<body.position[1] + Advance(sx, dt),
                                    body.position[2] + Advance(sy, dt)>>]

\* ------------------------------------------------------------------ collide
\* bodies: the enemies' bodies in list order, then the player's body
RECURSIVE VSum(_, _)
VSum(f, n) == IF n = 0 THEN <<0, 0>> ELSE VAdd(VSum(f, n - 1), f[n])

\* the shift a crate adds to body left: the whole penetration
CrateShift(left, item_crate) ==
    IF left.room # item_crate.room THEN <<0, 0>>
    ELSE LET diff == VSub(left.position, item_crate.position)
             size == FAdd(direction_len(left.form, diff),
                          direction_len(item_crate.form, diff))
         IN  IF size # NaN /\ size - length(diff) > 0
             THEN NormalizeTimes(diff, size - length(diff))
             ELSE <<0, 0>>

\* the shift the inner loop computes for the ordered pair (left, right): half of
\* the penetration, added to left and subtracted from right
PairShift(bodies, left_id, right_id) ==
    LET left == bodies[left_id]
        right == bodies[right_id]
    IN  IF left_id = right_id \/ left.room # right.room THEN <<0, 0>>
        ELSE LET diff == VSub(left.position, right.position)
                 size == FAdd(direction_len(left.form, diff),
                              direction_len(right.form, diff))
                 len == length(diff)
             IN  IF size # NaN /\ size - len > 0
                 THEN <<TruncDiv(diff[1] * (size - len), 2 * len),
                        TruncDiv(diff[2] * (size - len), 2 * len)>>
                 ELSE <<0, 0>>

\* shifts[id] after both loops: the crates' shifts, plus the shift of every pair
\* where id is left, minus the shift of every pair where id is right
Shift(bodies, crates, id) ==
    LET n == Len(bodies)
        fromCrates == VSum([c \in 1..Len(crates) |-> CrateShift(bodies[id], crates[c])],
                           Len(crates))
        asLeft == VSum([r \in 1..n |-> PairShift(bodies, id, r)], n)
        asRight == VSum([l \in 1..n |-> PairShift(bodies, l, id)], n)
    IN  VAdd(fromCrates, VSub(asLeft, asRight))

\* no wall clamp
WallClamp_none(position, form) == position

\* the wall clamp that ends collide
WallClamp(position, form) ==
    <<clamp(position[1], WALL_SIZE + x_r(form), RATIO_W_H - WALL_SIZE - x_r(form)),
      clamp(position[2], WALL_SIZE + y_r(form), UNIT - WALL_SIZE - y_r(form))>>

collide(bodies, crates) ==
    [id \in 1..Len(bodies) |->
        [bodies[id] EXCEPT
            !.position = WallClamp(VAdd(bodies[id].position, Shift(bodies, crates, id)),
                                   bodies[id].form)]]

\* ------------------------------------------------------------------ use_door
\* capture zones that reach further into the room than a mirror puts the player
InZone_deep(position, direction) ==
    LET x == position[1]
        y == position[2]
        half == RATIO_W_H \div 2
        wide == RATIO_W_H \div 2
        deep == WALL_SIZE + (10 * UNIT) \div 100
        lo == 0
        hi == UNIT
    IN  CASE direction = North ->
               half - wide <= x /\ x <= half + wide /\ 0 <= y /\ y <= deep
          [] direction = South ->
               half - wide <= x /\ x <= half + wide /\ UNIT - deep <= y /\ y <= UNIT
          [] direction = East ->
               RATIO_W_H - deep <= x /\ x <= RATIO_W_H /\ lo <= y /\ y <= hi
          [] direction = West ->
               0 <= x /\ x <= deep /\ lo <= y /\ y <= hi

\* the capture zone of a door seen in `direction`
InZone(position, direction) ==
    LET x == position[1]
        y == position[2]
        half == RATIO_W_H \div 2
        wide == (15 * UNIT) \div 100
        deep == WALL_SIZE + (5 * UNIT) \div 100
        lo == (35 * UNIT) \div 100
        hi == (65 * UNIT) \div 100
    IN  CASE direction = North ->
               half - wide <= x /\ x <= half + wide /\ 0 <= y /\ y <= deep
          [] direction = South ->
               half - wide <= x /\ x <= half + wide /\ UNIT - deep <= y /\ y <= UNIT
          [] direction = East ->
               RATIO_W_H - deep <= x /\ x <= RATIO_W_H /\ lo <= y /\ y <= hi
          [] direction = West ->
               0 <= x /\ x <= deep /\ lo <= y /\ y <= hi

\* the player stands in the capture zone of this door
Captured(player, door) ==
    LET d == door_from(door, player.body.room)
    IN  d # NoDoor /\ InZone(player.body.position, d.direction)

\* an exit that takes every guard for dead
AnyAlive_none(enemies) == FALSE

AnyAlive(enemies) == \E i \in 1..Len(enemies) : enemies[i].health # Dead

Ring(door) == IF door.playing = 0 THEN [door EXCEPT !.playing = 1 * SECOND] ELSE door

\* a mirror that does not clamp into the new room
Mirror_unclamped(position, direction) ==
    IF direction \in {North, South}
    THEN <<position[1], UNIT - position[2]>>
    ELSE <<RATIO_W_H - position[1], position[2]>>

Mirror(position, direction) ==
    IF direction \in {North, South}
    THEN <<position[1], clamp(UNIT - position[2], UNIT \div 10, UNIT - UNIT \div 10)>>
    ELSE <<clamp(RATIO_W_H - position[1], UNIT \div 10, RATIO_W_H - UNIT \div 10),
           position[2]>>

\* a closed door that lets the player through whatever it holds
use_door_no_lock(player, door, enemies) ==
    IF ~Captured(player, door)
    THEN [player |-> player, door |-> door, result |-> FALSE]
    ELSE
      LET d == door_from(door, player.body.room)
      IN  IF door.entrance
          THEN IF AnyAlive(enemies)
               THEN [player |-> [player EXCEPT !.body.phrase =
                                   Phrase("The guards are still on guard", 2 * SECOND)],
                     door |-> Ring(door), result |-> FALSE]
               ELSE IF player.item # Sword
               THEN [player |-> [player EXCEPT !.body.phrase =
                                   Phrase("I can't leave sword here", 2 * SECOND)],
                     door |-> Ring(door), result |-> FALSE]
               ELSE [player |-> player, door |-> door, result |-> TRUE]
          ELSE [player |-> [player EXCEPT
                              !.body.position = Mirror(@, d.direction),
                              !.body.room = d.to],
                door |-> [door EXCEPT !.closed = FALSE],
                result |-> FALSE]

\* an exit that does not ask what the player holds
use_door_any_item(player, door, enemies) ==
    IF ~Captured(player, door)
    THEN [player |-> player, door |-> door, result |-> FALSE]
    ELSE
      LET d == door_from(door, player.body.room)
      IN  IF door.entrance
          THEN IF AnyAlive(enemies)
               THEN [player |-> [player EXCEPT !.body.phrase =
                                   Phrase("The guards are still on guard", 2 * SECOND)],
                     door |-> Ring(door), result |-> FALSE]
               ELSE [player |-> player, door |-> door, result |-> TRUE]
          ELSE IF door.closed /\ player.item # Key
          THEN [player |-> [player EXCEPT !.body.phrase =
                              Phrase("It's locked", 1 * SECOND)],
                door |-> Ring(door), result |-> FALSE]
          ELSE [player |-> [player EXCEPT
                              !.body.position = Mirror(@, d.direction),
                              !.body.room = d.to],
                door |-> [door EXCEPT !.closed = FALSE],
                result |-> FALSE]

\* a door that locks behind the player
use_door_locks_behind(player, door, enemies) ==
    IF ~Captured(player, door)
    THEN [player |-> player, door |-> door, result |-> FALSE]
    ELSE
      LET d == door_from(door, player.body.room)
      IN  IF door.entrance
          THEN IF AnyAlive(enemies)
               THEN [player |-> [player EXCEPT !.body.phrase =
                                   Phrase("The guards are still on guard", 2 * SECOND)],
                     door |-> Ring(door), result |-> FALSE]
               ELSE IF player.item # Sword
               THEN [player |-> [player EXCEPT !.body.phrase =
                                   Phrase("I can't leave sword here", 2 * SECOND)],
                     door |-> Ring(door), result |-> FALSE]
               ELSE [player |-> player, door |-> door, result |-> TRUE]
          ELSE IF door.closed /\ player.item # Key
          THEN [player |-> [player EXCEPT !.body.phrase =
                              Phrase("It's locked", 1 * SECOND)],
                door |-> Ring(door), result |-> FALSE]
          ELSE [player |-> [player EXCEPT
                              !.body.position = Mirror(@, d.direction),
                              !.body.room = d.to],
                door |-> [door EXCEPT !.closed = TRUE],
                result |-> FALSE]

use_door(player, door, enemies) ==
    IF ~Captured(player, door)
    THEN [player |-> player, door |-> door, result |-> FALSE]
    ELSE
      LET d == door_from(door, player.body.room)
      IN  IF door.entrance
          THEN IF AnyAlive(enemies)
               THEN [player |-> [player EXCEPT !.body.phrase =
                                   Phrase("The guards are still on guard", 2 * SECOND)],
                     door |-> Ring(door), result |-> FALSE]
               ELSE IF player.item # Sword
               THEN [player |-> [player EXCEPT !.body.phrase =
                                   Phrase("I can't leave sword here", 2 * SECOND)],
                     door |-> Ring(door), result |-> FALSE]
               ELSE [player |-> player, door |-> door, result |-> TRUE]
          ELSE IF door.closed /\ player.item # Key
          THEN [player |-> [player EXCEPT !.body.phrase =
                              Phrase("It's locked", 1 * SECOND)],
                door |-> Ring(door), result |-> FALSE]
          ELSE [player |-> [player EXCEPT
                              !.body.position = Mirror(@, d.direction),
                              !.body.room = d.to],
                door |-> [door EXCEPT !.closed = FALSE],
                result |-> FALSE]

\* a timer that runs down without the clamp
Decay_unclamped(timer, dt) == timer - dt

\* door.playing = clamp(door.playing - dt, 0., door.playing)
Decay(timer, dt) == clamp(timer - dt, 0, timer)

\* doors.iter_mut().map(decay playing).any(use_door): in list order, stopping at
\* the first door that reports completion
RECURSIVE UseDoors(_, _, _, _, _)
UseDoors(player, doors, enemies, dt, i) ==
    IF i > Len(doors)
    THEN [player |-> player, doors |-> doors, next |-> FALSE]
    ELSE LET decayed == [doors[i] EXCEPT !.playing = Decay(@, dt)]
             r == use_door(player, decayed, enemies)
         IN  IF r.result
             THEN [player |-> r.player, doors |-> [doors EXCEPT ![i] = r.door],
                   next |-> TRUE]
             ELSE UseDoors(r.player, [doors EXCEPT ![i] = r.door], enemies, dt, i + 1)

\* ------------------------------------------------------------------ balls
OutOfBounds(position) ==
    \/ position[1] < WALL_SIZE + BALL_RADIUS
    \/ position[1] > RATIO_W_H - WALL_SIZE - BALL_RADIUS
    \/ position[2] < WALL_SIZE + BALL_RADIUS
    \/ position[2] > UNIT - WALL_SIZE - BALL_RADIUS

\* the ball overlaps this enemy, which is alive and in the ball's room
BallHits(ball, enemy) ==
    /\ ball.room = enemy.body.room
    /\ enemy.health # Dead
    /\ LET diff == VSub(ball.position, enemy.body.position)
       IN  FLess(length(diff), FAdd(BALL_RADIUS, direction_len(enemy.body.form, diff)))

AdvanceBall(ball, dt) ==
    [ball EXCEPT !.position = <<ball.position[1] + TruncDiv(ball.velocity[1] * dt, SECOND),
                               ball.position[2] + TruncDiv(ball.velocity[2] * dt, SECOND)>>]

\* the first enemy in list order the ball hits; 0 when there is none
FirstHit(ball, enemies) ==
    IF \E i \in 1..Len(enemies) : BallHits(ball, enemies[i])
    THEN CHOOSE i \in 1..Len(enemies) :
            /\ BallHits(ball, enemies[i])
            /\ \A j \in 1..(i - 1) : ~BallHits(ball, enemies[j])
    ELSE 0

\* the balls in list order, each seeing the enemies as the earlier balls left them
RECURSIVE UpdateBalls(_, _, _, _, _)
UpdateBalls(balls, enemies, dt, i, kept) ==
    IF i > Len(balls) THEN [balls |-> kept, enemies |-> enemies]
    ELSE LET ball == AdvanceBall(balls[i], dt)
             hit == FirstHit(ball, enemies)
         IN  IF hit # 0
             THEN UpdateBalls(balls, [enemies EXCEPT ![hit].health = decrease(@)],
                              dt, i + 1, kept)
             ELSE IF OutOfBounds(ball.position)
             THEN UpdateBalls(balls, enemies, dt, i + 1, kept)
             ELSE UpdateBalls(balls, enemies, dt, i + 1, Append(kept, ball))

\* ------------------------------------------------------------------ phrases
UpdatePhrase(phrase, health, dt) ==
    IF phrase = NoPhrase THEN NoPhrase
    ELSE IF phrase.time - dt <= 0 \/ health = Dead THEN NoPhrase
    ELSE [phrase EXCEPT !.time = @ - dt]

\* ------------------------------------------------------------------ swap_items
CanSwap(item_crate, player, in) ==
    /\ item_crate.room = player.body.room
    /\ in.interact
    /\ LET diff == VSub(item_crate.position, player.body.position)
       IN  FLessEq(length(diff),
                   FAdd(FAdd(direction_len(player.body.form, diff),
                             direction_len(item_crate.form, diff)),
                        (2 * UNIT) \div 100))

\* a swap in which the crate keeps its item
SwapItems_copies(crates, player, in) ==
    IF \E c \in 1..Len(crates) : CanSwap(crates[c], player, in)
    THEN LET c == CHOOSE k \in 1..Len(crates) :
                    /\ CanSwap(crates[k], player, in)
                    /\ \A j \in 1..(k - 1) : ~CanSwap(crates[j], player, in)
         IN  [crates |-> crates,
              player |-> [player EXCEPT !.item = crates[c].item],
              swapped |-> TRUE]
    ELSE [crates |-> crates, player |-> player, swapped |-> FALSE]

\* crates.iter_mut().any(swap_items): the first crate in list order that swaps
SwapItems(crates, player, in) ==
    IF \E c \in 1..Len(crates) : CanSwap(crates[c], player, in)
    THEN LET c == CHOOSE k \in 1..Len(crates) :
                    /\ CanSwap(crates[k], player, in)
                    /\ \A j \in 1..(k - 1) : ~CanSwap(crates[j], player, in)
         IN  [crates |-> [crates EXCEPT ![c].item = player.item],
              player |-> [player EXCEPT !.item = crates[c].item],
              swapped |-> TRUE]
    ELSE [crates |-> crates, player |-> player, swapped |-> FALSE]

\* ------------------------------------------------------------------ update_level
LevelInner(player, enemies, balls, doors, crates) ==
    [player |-> player, enemies |-> enemies, balls |-> balls,
     doors |-> doors, crates |-> crates]

\* The steps of one update_level call.  Each takes the level as the step before
\* left it and gives the level as it leaves it.
\* the level and the move actions once the player (pa) and the enemies (ea)
\* have acted
Acted(lv, pa, ea) ==
    [level |-> [lv EXCEPT !.player = ea.player, !.enemies = ea.enemies,
                          !.balls = pa.balls],
     actions |-> Append(ea.actions, pa.action)]

\* the enemies act on the player as player_action left it
EnemiesStep(lv, pa, dt) == Acted(lv, pa, EnemiesAct(lv.enemies, pa.player, dt, 1, <<>>))

ActionsStep(lv, in) == EnemiesStep(lv, player_action(lv.player, lv.balls, in), in.dt)

MoveStep(a, in) ==
    LET n == Len(a.level.enemies)
    IN  [a.level EXCEPT
           !.enemies = [i \in 1..n |->
                          [a.level.enemies[i] EXCEPT
                              !.body = MoveBody(@, a.actions[i], in.dt)]],
           !.player.body = MoveBody(@, a.actions[n + 1], in.dt)]

Bodies(lv) ==
    [i \in 1..(Len(lv.enemies) + 1) |->
        IF i <= Len(lv.enemies) THEN lv.enemies[i].body ELSE lv.player.body]

\* the bodies written back: the enemies' in list order, then the player's
SetBodies(lv, moved) ==
    [lv EXCEPT !.enemies = [i \in 1..Len(lv.enemies) |->
                              [lv.enemies[i] EXCEPT !.body = moved[i]]],
               !.player.body = moved[Len(lv.enemies) + 1]]

CollideStep(m) == SetBodies(m, collide(Bodies(m), m.crates))

DoorsStep(c, in) ==
    LET r == UseDoors(c.player, c.doors, c.enemies, in.dt, 1)
    IN  [level |-> [c EXCEPT !.player = r.player, !.doors = r.doors], next |-> r.next]

ReloadStep(d, in) ==
    [d EXCEPT !.enemies = [i \in 1..Len(d.enemies) |->
                             [d.enemies[i] EXCEPT !.reload = Decay(@, in.dt)]],
              !.player.reload = Decay(@, in.dt)]

BallsStep(r, in) ==
    LET b == UpdateBalls(r.balls, r.enemies, in.dt, 1, <<>>)
    IN  [r EXCEPT !.balls = b.balls, !.enemies = b.enemies]

PhrasesStep(b, in) ==
    [b EXCEPT !.enemies = [i \in 1..Len(b.enemies) |->
                             [b.enemies[i] EXCEPT
                                !.body.phrase =
                                   UpdatePhrase(@, b.enemies[i].health, in.dt)]],
              !.player.body.phrase = UpdatePhrase(@, b.player.health, in.dt)]

\* a swap that is not reported to the caller
SwapStep_unreported(p, in) ==
    [level |-> [p EXCEPT !.crates = SwapItems(p.crates, p.player, in).crates,
                         !.player = SwapItems(p.crates, p.player, in).player],
     swapped |-> FALSE]

SwapStep(p, in) ==
    LET s == SwapItems(p.crates, p.player, in)
    IN  [level |-> [p EXCEPT !.crates = s.crates, !.player = s.player],
         swapped |-> s.swapped]

\* a restore that does not ask whether the player is Dead
RestoresAlive(lv, in) == in.restart

\* the restore of update_level's last statement happens
Restores(lv, in) == lv.player.health = Dead /\ in.restart

\* update_level: the level, the backup and the returned flag after the call;
\* played is the level before the last statement's restore, swapped whether the
\* backup was taken in this call
\* the last statements: s is what swap_items left, next the doors' flag
BackupStep(s, next, bk, in) ==
    [level |-> IF Restores(s.level, in)
               THEN (IF s.swapped THEN s.level ELSE bk)
               ELSE s.level,
     backup |-> IF s.swapped THEN s.level ELSE bk,
     next |-> next,
     played |-> s.level,
     swapped |-> s.swapped]

\* the statements after the doors: d is what the door loop left
AfterDoorsStep(d, bk, in) ==
    BackupStep(SwapStep(PhrasesStep(BallsStep(ReloadStep(d.level, in), in), in), in),
               d.next, bk, in)

update_level(lv, bk, in) ==
    AfterDoorsStep(DoorsStep(CollideStep(MoveStep(ActionsStep(lv, in), in)), in), bk, in)

\* the level as a frame's steps leave it, from the level the frame starts in
AfterActions(lv, in) == ActionsStep(lv, in).level
AfterMove(lv, in) == MoveStep(ActionsStep(lv, in), in)
AfterCollide(lv, in) == CollideStep(AfterMove(lv, in))
AfterDoors(lv, in) == DoorsStep(AfterCollide(lv, in), in).level
AfterBalls(lv, in) == BallsStep(ReloadStep(AfterDoors(lv, in), in), in)
AfterSwap(lv, in) == SwapStep(PhrasesStep(AfterBalls(lv, in), in), in).level

\* ------------------------------------------------------------------ Level::load
\* LevelConfig: a sequence of RoomConfig; enter is a Direction or NoEnter
NoEnter == "None"
DoorConfig(direction, to, closed) == [direction |-> direction, to |-> to, closed |-> closed]
RoomConfig(id, enter, doors, items, enemies) ==
    [id |-> id, enter |-> enter, doors |-> doors, items |-> items, enemies |-> enemies]

\* doors.iter().find(|door| door.to == id): the index of the first, 0 for None
FindDoorTo(doors, id) ==
    IF \E k \in 1..Len(doors) : doors[k].to = id
    THEN CHOOSE k \in 1..Len(doors) :
            doors[k].to = id /\ \A j \in 1..(k - 1) : doors[j].to # id
    ELSE 0

\* a connection that is seen only from the room that declares the door
Connection_own_only(rooms, r, connected) ==
    LET own == FindDoorTo(rooms[r].doors, rooms[connected].id)
    IN  IF own # 0
        THEN <<[direction |-> rooms[r].doors[own].direction, room |-> connected,
                closed |-> rooms[r].doors[own].closed]>>
        ELSE <<>>

\* the filter_map of Level::load for room r and room `connected`: the connection
\* (direction, connected, closed) as a one-element sequence, or none
Connection(rooms, r, connected) ==
    LET own == FindDoorTo(rooms[r].doors, rooms[connected].id)
        back == FindDoorTo(rooms[connected].doors, rooms[r].id)
    IN  IF own # 0
        THEN <<[direction |-> rooms[r].doors[own].direction, room |-> connected,
                closed |-> rooms[r].doors[own].closed]>>
        ELSE IF back # 0
        THEN <<[direction |-> inverse(rooms[connected].doors[back].direction),
                room |-> connected, closed |-> rooms[connected].doors[back].closed]>>
        ELSE <<>>

RECURSIVE Connections(_, _, _)
Connections(rooms, r, upto) ==
    IF upto = 0 THEN <<>>
    ELSE Connections(rooms, r, upto - 1) \o Connection(rooms, r, upto)

\* room_map.get(room): the map is keyed by room id; the entry of an id is the one
\* collected last
room_map(rooms, id) ==
    LET r == CHOOSE k \in 1..Len(rooms) :
                rooms[k].id = id /\ \A j \in (k + 1)..Len(rooms) : rooms[j].id # id
    IN  Connections(rooms, r, Len(rooms))

\* connected_rooms.insert(direction, room).is_some() for some connection
TwoInOneDirection(conns) ==
    \E a, b \in 1..Len(conns) : a # b /\ conns[a].direction = conns[b].direction

Pushed(rooms, acc, id) == \E k \in 1..Len(acc) : rooms[acc[k]].id = id

\* push_room: acc is the sequence of room configs (by index) instantiated so far;
\* the connected rooms are visited in the order of the room's connection list
\* (one of the orders HashMap::into_values can give)
RECURSIVE push_room(_, _, _), PushConnected(_, _, _, _)
push_room(rooms, acc, r) ==
    LET conns == room_map(rooms, rooms[r].id)
    IN  IF TwoInOneDirection(conns) THEN [ok |-> FALSE, acc |-> acc]
        ELSE PushConnected(rooms, Append(acc, r), conns, 1)

PushConnected(rooms, acc, conns, k) ==
    IF k > Len(conns) THEN [ok |-> TRUE, acc |-> acc]
    ELSE IF Pushed(rooms, acc, rooms[conns[k].room].id)
    THEN PushConnected(rooms, acc, conns, k + 1)
    ELSE LET res == push_room(rooms, acc, conns[k].room)
         IN  IF res.ok THEN PushConnected(rooms, res.acc, conns, k + 1)
             ELSE [ok |-> FALSE, acc |-> acc]

\* an entry choice that takes the first marked room when several are marked
Enters_first(rooms) ==
    {r \in 1..Len(rooms) :
        rooms[r].enter # NoEnter /\ \A j \in 1..(r - 1) : rooms[j].enter = NoEnter}

Enters(rooms) == {r \in 1..Len(rooms) : rooms[r].enter # NoEnter}

\* the player's spawn point for the entrance direction and the random offset
SpawnPosition(enter, randomed) ==
    CASE enter = North -> <<randomed, UNIT \div 10>>
      [] enter = South -> <<randomed, (9 * UNIT) \div 10>>
      [] enter = West -> <<UNIT \div 10, randomed>>
      [] enter = East -> <<(9 * UNIT) \div 10, randomed>>

Body(position, form, room) ==
    [position |-> position, form |-> form, speed |-> <<0, 0>>, room |-> room,
     phrase |-> NoPhrase]

NewEnemy(position, room) ==
    [body |-> Body(position, EnemyForm, room), reload |-> 0, state |-> Idle,
     post |-> position, health |-> Low]

ItemCrate(item, position, room) ==
    [item |-> item, position |-> position, form |-> CrateForm, room |-> room]

NewPlayer(position, room) ==
    [body |-> Body(position, PlayerHiddenForm, room), reload |-> 0, health |-> Full,
     item |-> Sword, visible |-> FALSE, heal_time |-> HEAL_TIME]

\* the enemies (crates) of the instantiated rooms, in instantiation order; the
\* k-th one created takes the k-th random position
RECURSIVE SpawnEnemies(_, _, _, _), SpawnCrates(_, _, _, _)
SpawnEnemies(rooms, acc, k, points) ==
    IF k > Len(acc) THEN <<>>
    ELSE LET n == rooms[acc[k]].enemies
         IN  [i \in 1..n |-> NewEnemy(points[i], rooms[acc[k]].id)]
             \o SpawnEnemies(rooms, acc, k + 1, SubSeq(points, n + 1, Len(points)))

SpawnCrates(rooms, acc, k, points) ==
    IF k > Len(acc) THEN <<>>
    ELSE LET items == rooms[acc[k]].items
             n == Len(items)
         IN  [i \in 1..n |-> ItemCrate(items[i], points[i], rooms[acc[k]].id)]
             \o SpawnCrates(rooms, acc, k + 1, SubSeq(points, n + 1, Len(points)))

RECURSIVE DeclaredDoors(_, _)
DeclaredDoors(rooms, upto) ==
    IF upto = 0 THEN <<>>
    ELSE DeclaredDoors(rooms, upto - 1)
         \o [k \in 1..Len(rooms[upto].doors) |->
               Door(rooms[upto].id, rooms[upto].doors[k].to,
                    rooms[upto].doors[k].direction, rooms[upto].doors[k].closed, FALSE)]

OUTSIDE == 255

\* Level::load: ok is FALSE where the program panics.  rnd holds the values
\* gen_range returns: randomed for the player, a point for each enemy and crate
Load(rooms, rnd) ==
    IF Cardinality(Enters(rooms)) # 1 THEN [ok |-> FALSE]
    ELSE
      LET entry_room == CHOOSE r \in Enters(rooms) : TRUE
          enter == rooms[entry_room].enter
          pushed == push_room(rooms, <<>>, entry_room)
          \* the index push_room returns for the entry room, "as u8"
          current_room == 0
      IN  IF ~pushed.ok THEN [ok |-> FALSE]
          ELSE [ok |-> TRUE,
                level |->
                  LevelInner(
                    NewPlayer(SpawnPosition(enter, rnd.randomed), current_room),
                    SpawnEnemies(rooms, pushed.acc, 1, rnd.enemies),
                    <<>>,
                    Append(DeclaredDoors(rooms, Len(rooms)),
                           Door(current_room, OUTSIDE, enter, FALSE, TRUE)),
                    SpawnCrates(rooms, pushed.acc, 1, rnd.crates))]

\* the ranges gen_range draws from
InSpawnRange(point) ==
    /\ RATIO_W_H \div 3 <= point[1] /\ point[1] < (2 * RATIO_W_H) \div 3
    /\ UNIT \div 4 <= point[2] /\ point[2] < (3 * UNIT) \div 4

InRandomedRange(randomed) ==
    (35 * UNIT) \div 100 <= randomed /\ randomed < (65 * UNIT) \div 100

\* ------------------------------------------------------------------ the checked runs
\* A plan is a level config, the values gen_range may return while it loads, and
\* the inputs its frames draw from: frame k draws from script[k], and the frames
\* after the script draw from tail, at most MaxFrames of them.
MaxFrames == 5

Dt == SECOND \div 5
LongDt == 13 * Dt
StallDt == 24 * Dt

Keys(dt, move, mouse, keys) ==
    Input(dt, move, mouse, "space" \in keys, "attack" \in keys, "E" \in keys, "R" \in keys)
Wait(dt) == Keys(dt, <<0, 0>>, <<0, 0>>, {})
Walk(dt, move) == Keys(dt, move, <<0, 0>>, {})
Press(dt, key) == Keys(dt, <<0, 0>>, <<0, 0>>, {key})

Plan(rooms, rnds, script, tail) ==
    [rooms |-> rooms, rnds |-> rnds, script |-> script, tail |-> tail]
Rnd(randomed, enemies, crates) ==
    [randomed |-> randomed, enemies |-> enemies, crates |-> crates]

\* one room, one guard below the player's spawn point
GuardRoom == <<RoomConfig(0, North, <<>>, <<>>, 1)>>

\* one room, one guard, a crate with a vegetable below the player's spawn point
PantryRoom == <<RoomConfig(0, North, <<>>, <<Vegetable("carrot")>>, 1)>>

\* one room entered from the west, one guard
GateRoom == <<RoomConfig(0, West, <<>>, <<>>, 1)>>

\* one room, two guards
TwinsRoom == <<RoomConfig(0, North, <<>>, <<>>, 2)>>

\* the entry room with one guard and an open door west to a side room with one
HallRooms ==
    <<RoomConfig(0, North, <<DoorConfig(West, 1, FALSE)>>, <<>>, 1),
      RoomConfig(1, NoEnter, <<>>, <<>>, 1)>>

\* one room entered from the west, no guard, a crate with the key
LarderRoom == <<RoomConfig(0, West, <<>>, <<Key>>, 0)>>

\* the entry room with one guard and a closed door west to a side room with one
VaultRooms ==
    <<RoomConfig(0, North, <<DoorConfig(West, 1, TRUE)>>, <<>>, 1),
      RoomConfig(1, NoEnter, <<>>, <<>>, 1)>>

\* the vault with the key in a crate of the first room and one guard behind
\* the closed door
KeyedRooms ==
    <<RoomConfig(0, North, <<DoorConfig(West, 1, TRUE)>>, <<Key>>, 0),
      RoomConfig(1, NoEnter, <<>>, <<>>, 1)>>

Plans ==
    [guard |->
        Plan(GuardRoom,
             {Rnd(2400, <<<<2400, 1000>>>>, <<>>)},
             <<>>,
             {Wait(Dt), Press(Dt, "space"), Walk(Dt, <<0, 1>>), Walk(Dt, <<0, -1>>),
              Wait(LongDt), Press(Dt, "R")}),
     pantry |->
        Plan(PantryRoom,
             {Rnd(2400, <<<<3600, 1600>>>>, <<<<2400, 1000>>>>)},
             <<{Walk(Dt, <<0, 1>>)}, {Walk(Dt, <<0, 1>>)},
               {Keys(Dt, <<0, 1>>, <<0, 0>>, {"E"})},
               {Keys(Dt, <<0, 0>>, <<3600, 1600>>, {"space", "attack"})}>>,
             {Wait(Dt), Press(Dt, "R"), Press(Dt, "E")}),
     rollback |->
        Plan(PantryRoom,
             {Rnd(2400, <<<<2900, 1000>>>>, <<<<2400, 1000>>>>)},
             <<{Keys(Dt, <<0, 1>>, <<0, 0>>, {"space"})},
               {Walk(Dt, <<0, 1>>)}, {Walk(Dt, <<0, 1>>)}, {Wait(Dt)}, {Wait(Dt)},
               {Wait(Dt), Press(Dt, "E"), Wait(StallDt)}>>,
             {Wait(Dt), Press(Dt, "R"), Wait(StallDt), Press(Dt, "E"),
              Keys(Dt, <<0, 0>>, <<0, 0>>, {"E", "R"})}),
     \* the player shows itself and runs west along the north wall for more frames
     \* than the speed counter has steps, the guard after it from the east
     runner |->
        Plan(GuardRoom,
             {Rnd(2599, <<<<4700, 1000>>>>, <<>>)},
             <<{Keys(Dt, <<-1, 0>>, <<0, 0>>, {"space"})}>>
               \o [k \in 1..SPEED_STEPS |-> {Walk(Dt, <<-1, 0>>)}],
             {Walk(Dt, <<-1, 0>>), Walk(Dt, <<1, 1>>), Walk(Dt, <<0, -1>>)}),
     \* the player shows itself, hides and walks away while the guard waits
     wind |->
        Plan(GuardRoom,
             {Rnd(2400, <<<<2400, 1000>>>>, <<>>)},
             <<{Press(Dt, "space")}, {Keys(Dt, <<1, 0>>, <<0, 0>>, {"space"})},
               {Walk(StallDt, <<1, 0>>)}>>,
             {Wait(Dt), Wait(LongDt), Press(Dt, "space")}),
     \* two guards, the one far from the spawn point first or last in the list
     twins |->
        Plan(TwinsRoom,
             {Rnd(2400, <<<<4700, 2900>>, <<2400, 1000>>>>, <<>>),
              Rnd(2400, <<<<2400, 1000>>, <<4700, 2900>>>>, <<>>)},
             <<>>,
             {Wait(Dt), Wait(LongDt), Press(Dt, "space")}),
     \* the player walks back into the entrance door while the guard lives
     gate |->
        Plan(GateRoom,
             {Rnd(2000, <<<<4000, 2000>>>>, <<>>)},
             <<{Walk(Dt, <<-1, 0>>)}, {Walk(Dt, <<-1, 0>>)}>>,
             {Walk(Dt, <<-1, 0>>), Wait(Dt), Walk(Dt, <<1, 0>>), Press(Dt, "space")}),
     \* the player takes the carrot and throws it south at the guard, which steps
     \* north to where the carrot comes down
     bullseye |->
        Plan(PantryRoom,
             {Rnd(2400, <<<<2400, 2852>>>>, <<<<2400, 1000>>>>)},
             <<{Keys(LongDt, <<0, 1>>, <<0, 0>>, {"E"})},
               {Keys(Dt, <<0, 0>>, <<2400, 3900>>, {"space", "attack"})}>>,
             {Wait(Dt)}),
     \* the player walks to the closed west door with the sword in hand and waits
     vault |->
        Plan(VaultRooms,
             {Rnd(1400, <<<<4000, 2000>>, <<3000, 2000>>>>, <<>>)},
             <<{Walk(LongDt, <<-1, 1>>)}, {Walk(LongDt, <<-1, 1>>)}>>,
             {Wait(Dt), Walk(Dt, <<-1, 0>>), Walk(Dt, <<1, 0>>)}),
     \* the player walks east to the crate, takes the key or leaves it, and walks
     \* back west into the entrance door
     leave |->
        Plan(LarderRoom,
             {Rnd(2000, <<>>, <<<<2400, 2000>>>>)},
             <<{Walk(LongDt, <<1, 0>>)},
               {Walk(LongDt, <<1, 0>>), Keys(LongDt, <<1, 0>>, <<0, 0>>, {"E"})}>>
               \o [k \in 1..4 |-> {Walk(LongDt, <<-1, 0>>)}],
             {Walk(LongDt, <<-1, 0>>), Wait(Dt)}),
     \* the player takes the carrot and throws it east between two guards that
     \* stand one above the other, so that it comes down on both
     skewer |->
        Plan(<<RoomConfig(0, North, <<>>, <<Vegetable("carrot")>>, 2)>>,
             {Rnd(2400, <<<<3952, 1068>>, <<3952, 1532>>>>, <<<<2400, 1000>>>>)},
             <<{Keys(LongDt, <<0, 1>>, <<0, 0>>, {"E"})},
               {Keys(Dt, <<0, 0>>, <<7000, 1300>>, {"space", "attack"})}>>,
             {Wait(Dt)}),
     \* the player takes the key, opens the west door with it, shows itself to
     \* the guard behind the door and is killed
     unlock |->
        Plan(KeyedRooms,
             {Rnd(2400, <<<<4700, 1000>>>>, <<<<2400, 1000>>>>)},
             <<{Keys(LongDt, <<0, 1>>, <<0, 0>>, {"E"})},
               {Walk(Dt, <<-1, 1>>)}, {Walk(LongDt, <<-1, -1>>)},
               {Walk(LongDt, <<-1, 0>>)},
               {Walk(Dt, <<1, -1>>)}, {Walk(LongDt, <<1, -1>>)},
               {Walk(LongDt, <<1, -1>>)}, {Press(Dt, "space")}>>
               \o [k \in 1..12 |-> {Wait(Dt)}],
             {Wait(Dt), Press(Dt, "R")}),
     \* the player takes the carrot from a crate south of its way, shows itself
     \* to the guard east of it and walks back west; in the frame of the
     \* guard's second hit it throws the carrot at the guard and takes the sword
     \* back, and is then carried on west into the entrance
     relic |->
        Plan(<<RoomConfig(0, West, <<>>, <<Vegetable("carrot")>>, 1)>>,
             {Rnd(1700, <<<<2707, 1700>>>>, <<<<2428, 2000>>>>)},
             <<{Walk(LongDt, <<1, 0>>)},
               {Keys(LongDt, <<1, 0>>, <<0, 0>>, {"E"})},
               {Keys(Dt, <<-1, 0>>, <<0, 0>>, {"space"})},
               {Walk(Dt, <<-1, 0>>)}, {Walk(Dt, <<-1, 0>>)},
               {Keys(SECOND \div 100, <<-1, 0>>, <<7000, 1700>>, {"attack", "E"})},
               {Wait(LongDt)}, {Wait(LongDt)}>>,
             {Wait(Dt)}),
     \* no guard and two crates, carrot and key, with the player between them
     \* and both in reach
     pick |->
        Plan(<<RoomConfig(0, North, <<>>, <<Vegetable("carrot"), Key>>, 0)>>,
             {Rnd(2400, <<>>, <<<<2400, 1000>>, <<2400, 1600>>>>)},
             <<{Keys(LongDt, <<0, 1>>, <<0, 0>>, {"E"})}>>,
             {Wait(Dt), Press(Dt, "E"),
              Keys(Dt, <<0, 0>>, <<7000, 1300>>, {"space", "attack"}),
              Keys(Dt, <<0, 0>>, <<7000, 1300>>, {"attack", "E"})}),
     \* the player walks to the west door and through it into the side room
     hall |->
        Plan(HallRooms,
             {Rnd(1400, <<<<4000, 2000>>, <<3000, 2000>>>>, <<>>)},
             <<{Walk(LongDt, <<-1, 1>>)}>>,
             {Walk(LongDt, <<-1, 1>>), Press(Dt, "space"), Walk(Dt, <<1, 0>>),
              Walk(LongDt, <<1, 0>>)})]

PlanNames == DOMAIN Plans

\* level, backup: the fields of Level.  next: what the last update_level call
\* returned.  input: what the last call read.  frames: the calls made.
\* low_for: the time the player has now been Low without a break.  heal_due: the
\* heal time the player had left when it last became Low.  healed: the time the
\* player had been Low when the last call healed it, 0 when that call did not.
\* config: the LevelConfig given to Level::load.  loaded: "no" before the call,
\* "yes" when it returned a level, "panic" when it panicked.
\* scene: the cards and the current index of a Scene.  done: what the last
\* Scene::update call returned, "panic" when it panicked, "none" before the
\* first call.
VARIABLES level, backup, next, input, frames, plan, low_for, heal_due, healed,
          config, loaded, scene, done
vars == <<level, backup, next, input, frames, plan, low_for, heal_due, healed,
          config, loaded, scene, done>>

\* where no scene is shown
NoScene == [cards |-> <<>>, current |-> 0]

RndOk(rnd) ==
    /\ InRandomedRange(rnd.randomed)
    /\ \A k \in 1..Len(rnd.enemies) : InSpawnRange(rnd.enemies[k])
    /\ \A k \in 1..Len(rnd.crates) : InSpawnRange(rnd.crates[k])

Init ==
    /\ plan \in PlanNames
    /\ \E rnd \in Plans[plan].rnds :
          /\ RndOk(rnd)
          /\ Load(Plans[plan].rooms, rnd).ok
          /\ level = Load(Plans[plan].rooms, rnd).level
    /\ backup = level
    /\ next = FALSE
    /\ input = Wait(0)
    /\ frames = 0
    /\ low_for = 0
    /\ heal_due = HEAL_TIME
    /\ healed = 0
    /\ config = Plans[plan].rooms
    /\ loaded = "yes"
    /\ scene = NoScene
    /\ done = "none"

\* the inputs frame number k of the plan draws from
FrameInputs(p, k) ==
    IF k <= Len(Plans[p].script) THEN Plans[p].script[k]
    ELSE IF k <= Len(Plans[p].script) + MaxFrames THEN Plans[p].tail
    ELSE {}

\* the player heals in the frame's player_action
Heals(lv, in) ==
    lv.player.health = Low /\ player_action(lv.player, lv.balls, in).player.health = Full

\* the player is Low from the start of the frame to its end, before a restore
StaysLow(lv, in, played) ==
    lv.player.health = Low /\ ~Heals(lv, in) /\ played.player.health = Low

\* one call of update_level
UpdateLevel ==
    \E in \in FrameInputs(plan, frames + 1) :
      \E r \in {update_level(level, backup, in)} :
        LET restored == Restores(r.played, in)
            stays == StaysLow(level, in, r.played)
        IN  /\ level' = r.level
            /\ backup' = r.backup
            /\ next' = r.next
            /\ input' = in
            /\ frames' = frames + 1
            /\ plan' = plan
            /\ low_for' = IF stays /\ ~restored THEN low_for + in.dt ELSE 0
            /\ heal_due' = IF restored THEN r.backup.player.heal_time
                           ELSE IF stays THEN heal_due
                           ELSE HEAL_TIME
            /\ healed' = IF Heals(level, in) THEN low_for + in.dt ELSE 0
            /\ UNCHANGED <<config, loaded, scene, done>>

Next == UpdateLevel

Spec == Init /\ [][Next]_vars

\* ------------------------------------------------------------------ the checked loads
\* The level configs Level::load is called with: one to three rooms with
\* distinct ids, each room marked as the entry (from the north) or not, each
\* declaring no door, one door or two doors, north or south, to another room;
\* every room has one guard and one crate.
ConfigIds == {<<0>>, <<0, 1>>, <<0, 1, 2>>}

\* the door declarations of a room: none, one, or two in list order
DoorLists(ids) ==
    LET directions == <<North, South>>
        dirs == 1..Len(directions)
        tos == 1..Len(ids)
        door(d, k) == DoorConfig(directions[d], ids[k], FALSE)
        pairs == {q \in dirs \X tos \X dirs \X tos :
                     (q[2] < q[4]) \/ (q[2] = q[4] /\ q[1] <= q[3])}
    IN  {<<>>}
        \cup {<<door(d, k)>> : d \in dirs, k \in tos}
        \cup {<<door(q[1], q[2]), door(q[3], q[4])>> : q \in pairs}

\* the configs of room number k of a config with these ids
RoomChoices(ids, k) ==
    LET others == SelectSeq(ids, LAMBDA id : id # ids[k])
    IN  {RoomConfig(ids[k], enter, doors, <<Vegetable("carrot")>>, 1) :
            enter \in {NoEnter, North}, doors \in DoorLists(others)}

RECURSIVE RoomLists(_, _)
RoomLists(ids, n) ==
    IF n = 0 THEN {<<>>}
    ELSE {Append(rooms, room) :
             rooms \in RoomLists(ids, n - 1), room \in RoomChoices(ids, n)}

\* the values gen_range returns during the load
LoadRnds ==
    {Rnd(2000, <<<<2400, 1000>>, <<3000, 2000>>, <<4000, 2900>>>>,
         <<<<2400, 2900>>, <<3600, 1600>>, <<4700, 1000>>>>)}

\* before Level::load there is no level
NoLevel == [player |-> "none"]

LoadInit ==
    /\ \E ids \in ConfigIds : config \in RoomLists(ids, Len(ids))
    /\ loaded = "no"
    /\ level = NoLevel
    /\ backup = NoLevel
    /\ next = FALSE
    /\ input = Wait(0)
    /\ frames = 0
    /\ plan = "none"
    /\ low_for = 0
    /\ heal_due = HEAL_TIME
    /\ healed = 0
    /\ scene = NoScene
    /\ done = "none"

\* Level::load returns the level
LoadReturns ==
    /\ loaded = "no"
    /\ \E rnd \in LoadRnds :
          /\ RndOk(rnd)
          /\ Load(config, rnd).ok
          /\ level' = Load(config, rnd).level
          /\ backup' = Load(config, rnd).level
    /\ loaded' = "yes"
    /\ UNCHANGED <<next, input, frames, plan, low_for, heal_due, healed, config,
                   scene, done>>

\* Level::load panics: there is no level
LoadPanics ==
    /\ loaded = "no"
    /\ \E rnd \in LoadRnds : RndOk(rnd) /\ ~Load(config, rnd).ok
    /\ loaded' = "panic"
    /\ UNCHANGED <<level, backup, next, input, frames, plan, low_for, heal_due,
                   healed, config, scene, done>>

LoadNext == LoadReturns \/ LoadPanics

LoadSpec == LoadInit /\ [][LoadNext]_vars

\* ------------------------------------------------------------------ the checked door steps
\* The door step of update_level on its own: a player holding the sword or the
\* key stands in room 0 at a point of a grid that has points inside, on the
\* edge of and outside every capture zone and at the places a mirror leads to;
\* the door list has two doors, the first leaving room 0 in any direction, open
\* or closed, the second open between any two of three rooms.
DoorInit ==
    /\ \E position \in
             {UNIT \div 40, WALL_SIZE + UNIT \div 20, UNIT \div 10, RATIO_W_H \div 2,
              RATIO_W_H - UNIT \div 10, RATIO_W_H - WALL_SIZE - UNIT \div 20,
              RATIO_W_H - UNIT \div 40}
             \X {UNIT \div 40, WALL_SIZE + UNIT \div 20, UNIT \div 10, UNIT \div 2,
                 UNIT - UNIT \div 10, UNIT - WALL_SIZE - UNIT \div 20,
                 UNIT - UNIT \div 40} :
       \E item \in {Sword, Key} :
       \E first \in {Door(0, to, direction, closed, FALSE) :
                        to \in 1..2, direction \in Direction, closed \in BOOLEAN} :
       \E second \in {Door(q[1], q[2], direction, FALSE, FALSE) :
                         q \in {r \in (0..2) \X (0..2) : r[1] # r[2]},
                         direction \in Direction} :
          level = LevelInner([NewPlayer(position, 0) EXCEPT !.item = item],
                             <<>>, <<>>, <<first, second>>, <<>>)
    /\ backup = level
    /\ next = FALSE
    /\ input = Wait(0)
    /\ frames = 0
    /\ plan = "none"
    /\ low_for = 0
    /\ heal_due = HEAL_TIME
    /\ healed = 0
    /\ config = <<>>
    /\ loaded = "yes"
    /\ scene = NoScene
    /\ done = "none"

\* the door step of one frame
DoorPass ==
    /\ frames = 0
    /\ \E r \in {DoorsStep(level, Wait(Dt))} :
          /\ level' = r.level
          /\ next' = r.next
    /\ input' = Wait(Dt)
    /\ frames' = 1
    /\ UNCHANGED <<backup, plan, low_for, heal_due, healed, config, loaded, scene, done>>

DoorSpec == DoorInit /\ [][DoorPass]_vars

\* ------------------------------------------------------------------ the checked throws
\* Frames without end for the player that stands between the two crates with
\* the carrot in hand: it waits, shows or hides itself, and throws, with the
\* aim point on itself or in one of eight directions, when no ball is in
\* flight.  frames is not counted further.
FlightInputs(lv) ==
    LET dts == {Dt, SECOND \div 10}
        offsets == {<<x, y>> : x \in {0 - UNIT, 0, UNIT}, y \in {0 - UNIT, 0, UNIT}}
    IN  {Wait(dt) : dt \in dts}
        \cup {Press(dt, "space") : dt \in dts}
        \cup (IF lv.balls = <<>>
              THEN {Keys(dt, <<0, 0>>, VAdd(lv.player.body.position, offset), {"attack"}) :
                       dt \in dts, offset \in offsets}
              ELSE {})

\* the level after the first frame of the run with the two crates
FlightInit ==
    /\ plan = "pick"
    /\ \E rnd \in Plans[plan].rnds : \E in \in Plans[plan].script[1] :
       \E loaded_level \in {Load(Plans[plan].rooms, rnd).level} :
       \E r \in {update_level(loaded_level, loaded_level, in)} :
          /\ level = r.level
          /\ backup = r.backup
          /\ next = r.next
          /\ input = in
    /\ frames = 1
    /\ low_for = 0
    /\ heal_due = HEAL_TIME
    /\ healed = 0
    /\ config = Plans[plan].rooms
    /\ loaded = "yes"
    /\ scene = NoScene
    /\ done = "none"

\* one call of update_level
\* the loop of main.rs goes on to the next frame: frames is the parity of the
\* frame count here
NextFrame == frames' = 3 - frames

FlightFrame ==
    /\ \E in \in FlightInputs(level) : \E r \in {update_level(level, backup, in)} :
          /\ level' = r.level
          /\ backup' = r.backup
          /\ next' = r.next
          /\ input' = in
    /\ NextFrame
    /\ UNCHANGED <<plan, low_for, heal_due, healed, config, loaded, scene, done>>

\* the game loop calls update_level in every frame, so the frames never end
FlightSpec == FlightInit /\ [][FlightFrame]_vars /\ WF_frames(NextFrame)

\* ------------------------------------------------------------------ Scene
LETTERS_PER_SECOND == 10

\* State: letters is the f32 of Printing, in thousandths of a letter
Printing(letters) == [tag |-> "Printing", letters |-> letters]
View == [tag |-> "View", letters |-> 0]

\* Card::new; the text is modelled by its length
NewCard(len) == [len |-> len, state |-> Printing(0)]

\* Card::update: the card afterwards and the returned flag
CardUpdate(card, skip, dt) ==
    IF card.state.tag = "Printing"
    THEN LET letters == card.state.letters + dt * LETTERS_PER_SECOND
         IN  [card |-> [card EXCEPT !.state = IF skip \/ letters > card.len * SECOND
                                              THEN View ELSE Printing(letters)],
              result |-> FALSE]
    ELSE [card |-> card, result |-> skip]

\* move_forward: Option<bool>
MoveForward == {"None", "Some(true)", "Some(false)"}

\* Scene::update where cards[current] exists: the scene afterwards and the
\* returned flag
SceneUpdate(sc, move_forward, dt) ==
    IF move_forward = "Some(false)"
    THEN [scene |-> [sc EXCEPT !.current = IF @ > 0 THEN @ - 1 ELSE 0], result |-> FALSE]
    ELSE LET r == CardUpdate(sc.cards[sc.current + 1], move_forward # "None", dt)
             updated == [sc EXCEPT !.cards[sc.current + 1] = r.card]
             moved == IF r.result
                      THEN [updated EXCEPT
                              !.current = @ + 1,
                              !.cards = IF sc.current + 2 <= Len(sc.cards)
                                        THEN [@ EXCEPT ![sc.current + 2].state = Printing(0)]
                                        ELSE @]
                      ELSE updated
         IN  [scene |-> moved, result |-> moved.current >= Len(moved.cards)]

\* the scenes: one to MaxCards cards with texts of 0 or 2 letters
MaxCards == 3
SceneInit ==
    /\ \E n \in 1..MaxCards : \E lens \in [1..n -> {0, 2}] :
          scene = [cards |-> [k \in 1..n |-> NewCard(lens[k])], current |-> 0]
    /\ done = "none"
    /\ level = NoLevel
    /\ backup = NoLevel
    /\ next = FALSE
    /\ input = Wait(0)
    /\ frames = 0
    /\ plan = "none"
    /\ low_for = 0
    /\ heal_due = HEAL_TIME
    /\ healed = 0
    /\ config = <<>>
    /\ loaded = "no"

\* a call of Scene::update that returns
SceneReturns ==
    /\ done # "panic"
    /\ \E move_forward \in MoveForward : \E dt \in {SECOND \div 10, SECOND \div 4} :
          /\ move_forward # "Some(false)" => scene.current < Len(scene.cards)
          /\ \E r \in {SceneUpdate(scene, move_forward, dt)} :
                /\ scene' = r.scene
                /\ done' = IF r.result THEN "true" ELSE "false"
    /\ UNCHANGED <<level, backup, next, input, frames, plan, low_for, heal_due,
                   healed, config, loaded>>

\* a call of Scene::update that panics: cards[current] is out of bounds
ScenePanics ==
    /\ done # "panic"
    /\ \E move_forward \in MoveForward :
          /\ move_forward # "Some(false)"
          /\ scene.current >= Len(scene.cards)
    /\ done' = "panic"
    /\ UNCHANGED <<level, backup, next, input, frames, plan, low_for, heal_due,
                   healed, config, loaded, scene>>

SceneSpec == SceneInit /\ [][SceneReturns \/ ScenePanics]_vars

\* ------------------------------------------------------------------ claims
Actors == {<<"player", 0>>} \cup {<<"enemy", i>> : i \in 1..Len(level.enemies)}
HealthOf(lv, a) == IF a[1] = "player" THEN lv.player.health ELSE lv.enemies[a[2]].health

MaxHits == 3

RECURSIVE DecreaseTimes(_, _)
DecreaseTimes(h, n) == IF n = 0 THEN h ELSE DecreaseTimes(decrease(h), n - 1)

\* C1: Health::decrease is total over the three health values: Full becomes Low,
\* Low becomes Dead, Dead stays Dead, and applied to Dead any number of times it
\* leaves Dead; so it is for the health of every actor of every reachable level.
C1_DecreaseTotal ==
    /\ \A h \in Health : decrease(h) \in Health
    /\ decrease(Full) = Low
    /\ decrease(Low) = Dead
    /\ \A n \in 0..MaxHits : DecreaseTimes(Dead, n) = Dead
    /\ \A a \in Actors :
          /\ HealthOf(level, a) \in Health
          /\ HealthOf(level, a) # Full => decrease(HealthOf(level, a)) = Dead

\* the player has been hit twice: Full, Low, Dead
C1_Witness ==
    /\ level.player.health = Dead
    /\ \E i \in 1..Len(level.enemies) : level.enemies[i].reload > 0

\* C2 as stated: no actor's health ever leaves Dead from one frame to the next.
C2_DeadForever ==
    [][\A a \in Actors : HealthOf(level, a) = Dead => HealthOf(level', a) = Dead]_vars

\* C2 amended: in a frame that does not restore the backup (the player Dead at
\* the frame's end and R pressed), no actor's health leaves Dead.
C2_DeadUntilRestore ==
    [][LET played == AfterSwap(level, input')
       IN  ~(played.player.health = Dead /\ input'.restart)
           => \A a \in Actors :
                 HealthOf(level, a) = Dead => HealthOf(level', a) = Dead]_vars

\* a frame began with the player Dead (it took the dead form) and left it Dead
C2_Witness ==
    /\ level.player.health = Dead
    /\ level.player.body.form = PlayerDeadForm
    /\ ~input.restart

\* the enemies whose melee hit happens in the frame: the reload timer goes from
\* 0 to the cooldown in enemy_action
Hitters(lv, in) ==
    {i \in 1..Len(lv.enemies) :
        lv.enemies[i].reload = 0 /\ AfterActions(lv, in).enemies[i].reload = PLAYER_RELOAD}

\* C3 as stated: the player heals (Low to Full) only when the time it has been
\* Low without a break, this frame's dt included, is at least HEAL_TIME; a player
\* hit while Low is Dead after the frame; a Full player that is not hit stays Full.
C3_HealAfterHealTime ==
    [][/\ Heals(level, input') => low_for + input'.dt >= HEAL_TIME
       /\ (level.player.health = Low /\ ~Heals(level, input')
             /\ Hitters(level, input') # {})
          => AfterSwap(level, input').player.health = Dead
       /\ (level.player.health = Full /\ Hitters(level, input') = {})
          => level'.player.health = Full]_vars

\* C3 amended: the same, where a player that became Low by a restart heals when
\* the time it has been Low since then is at least the heal time that was left
\* in the restored snapshot.
C3_HealAfterHealDue ==
    [][/\ Heals(level, input') => low_for + input'.dt >= heal_due
       /\ (level.player.health = Low /\ ~Heals(level, input')
             /\ Hitters(level, input') # {})
          => AfterSwap(level, input').player.health = Dead
       /\ (level.player.health = Full /\ Hitters(level, input') = {})
          => level'.player.health = Full]_vars

\* the player has healed after being Low for the whole heal time
C3_Witness == healed >= HEAL_TIME

\* the bodies update_level moves and collides: every enemy's, then the player's
AllBodies(lv) == {Bodies(lv)[i] : i \in 1..(Len(lv.enemies) + 1)}

\* C4: after every frame both axes of every body's speed counter (the player's
\* and every enemy's) are within [-SPEED_STEPS, SPEED_STEPS].
C4_SpeedWithinSteps ==
    \A body \in AllBodies(level) :
        \A axis \in 1..2 :
            -SPEED_STEPS <= body.speed[axis] /\ body.speed[axis] <= SPEED_STEPS

\* the player and an enemy have pushed west for more frames than the counter has
\* steps: the clamp has cut both counters
C4_Witness ==
    /\ frames > SPEED_STEPS
    /\ input.move[1] = -1
    /\ level.player.body.speed[1] = -SPEED_STEPS
    /\ \E i \in 1..Len(level.enemies) : level.enemies[i].body.speed[1] = -SPEED_STEPS

\* the room inset by the wall thickness plus the form's extent
InsideWalls(position, form) ==
    /\ WALL_SIZE + x_r(form) <= position[1]
    /\ position[1] <= RATIO_W_H - WALL_SIZE - x_r(form)
    /\ WALL_SIZE + y_r(form) <= position[2]
    /\ position[2] <= UNIT - WALL_SIZE - y_r(form)

\* C5: at the end of every update_level call every body (the player's and every
\* enemy's, alive or dead) is inside the room inset by the wall thickness plus
\* the extent of the form the body has then.
C5_InsideWalls ==
    frames > 0 => \A body \in AllBodies(level) : InsideWalls(body.position, body.form)

\* the player has been clamped at the west wall and has gone through the west
\* door in the same frame: it stands at the far side of the side room
C5_Witness ==
    /\ level.player.body.room = 1
    /\ level.player.body.position[1] = RATIO_W_H - UNIT \div 10
    /\ input.move[1] = -1

\* the numerical slack granted to the collision pass
Eps == UNIT \div 1000

\* two bodies keep their distance: the centre distance is at least the sum of
\* their extents along the centre line, up to Eps
Apart(left, right) ==
    LET diff == VSub(left.position, right.position)
        size == FAdd(direction_len(left.form, diff), direction_len(right.form, diff))
    IN  size # NaN /\ length(diff) + Eps >= size

\* C6: after the collision pass of a frame every two bodies in the same room
\* keep their distance, wherever walls and crates are.
C6_NoInterpenetration ==
    [][LET bodies == Bodies(AfterCollide(level, input'))
       IN  \A i, j \in 1..Len(bodies) :
              (i # j /\ bodies[i].room = bodies[j].room) => Apart(bodies[i], bodies[j])]_vars

\* the player as enemy i's enemy_action sees it in the frame: after the frame's
\* player_action and the hits of the enemies before i
SeenBy(lv, in, i) ==
    EnemiesAct(SubSeq(lv.enemies, 1, i - 1),
               player_action(lv.player, lv.balls, in).player, in.dt, 1, <<>>).player

LiveEnemies(lv) == {i \in 1..Len(lv.enemies) : lv.enemies[i].health # Dead}

\* enemy i leaves the frame's enemy_action in `state` with `phrase` just set,
\* and ends the frame in that state unless the frame restores the backup
Becomes(i, state, phrase) ==
    /\ AfterActions(level, input').enemies[i].state = state
    /\ AfterActions(level, input').enemies[i].body.phrase = phrase
    /\ ~(AfterSwap(level, input').player.health = Dead /\ input'.restart)
          => level'.enemies[i].state = state

WaitsOut(i) ==
    LET enemy == level.enemies[i]
        dt == input'.dt
    IN  /\ enemy.state.tag = "LastSeen" /\ enemy.state.timer + dt <= 5 * SECOND
           => Becomes(i, LastSeen(enemy.state.pos, enemy.state.timer + dt),
                      enemy.body.phrase)
        /\ enemy.state.tag = "LastSeen" /\ enemy.state.timer + dt > 5 * SECOND
           => Becomes(i, Idle, Phrase("Must've been wind", 2 * SECOND))
        /\ enemy.state.tag = "Idle" => Becomes(i, Idle, enemy.body.phrase)

EntrancesTried(lv, in) ==
    {k \in 1..Len(lv.doors) :
        /\ lv.doors[k].entrance
        /\ Captured(AfterCollide(lv, in).player, lv.doors[k])}

\* C10: in a frame in which the player stands in the capture zone of the
\* entrance door while some enemy is not Dead, the door pass changes neither the
\* player's room nor its position and update_level does not report completion.
C10_ExitGated ==
    [][(/\ EntrancesTried(level, input') # {}
        /\ LiveEnemies(AfterCollide(level, input')) # {})
       => /\ next' = FALSE
          /\ AfterDoors(level, input').player.body.room
                = AfterCollide(level, input').player.body.room
          /\ AfterDoors(level, input').player.body.position
                = AfterCollide(level, input').player.body.position]_vars

\* the player has stood in the entrance zone for three frames in a row with a
\* guard alive: the door rang in the first and has not been opened
C10_Witness ==
    /\ LiveEnemies(level) # {}
    /\ next = FALSE
    /\ \E k \in 1..Len(level.doors) :
          /\ level.doors[k].entrance
          /\ Captured(level.player, level.doors[k])
          /\ level.doors[k].playing = SECOND - 2 * Dt
    /\ level.player.body.phrase = Phrase("The guards are still on guard", 2 * SECOND - Dt)

\* the entrance doors that capture this player
Entrances(lv, player) ==
    {k \in 1..Len(lv.doors) : lv.doors[k].entrance /\ Captured(player, lv.doors[k])}

\* what C11 says of a frame whose door pass leaves the level d and returns flag
ExitRule(d, flag) ==
    /\ flag = (/\ Entrances(d, d.player) # {}
               /\ LiveEnemies(d) = {}
               /\ d.player.item = Sword)
    /\ (Entrances(d, d.player) # {} /\ LiveEnemies(d) # {})
       => d.player.body.phrase = Phrase("The guards are still on guard", 2 * SECOND)
    /\ (Entrances(d, d.player) # {} /\ LiveEnemies(d) = {} /\ d.player.item # Sword)
       => d.player.body.phrase = Phrase("I can't leave sword here", 2 * SECOND)

\* C11: update_level returns true in a frame if and only if, in the frame's door
\* pass, the player stands in the capture zone of the entrance door of its room,
\* every enemy of the level is Dead and the player holds the Sword; in the zone
\* with a live enemy, or with no live enemy and another item, it returns false
\* and the door pass sets the phrase of that case.
C11_ExitReturnsTrue ==
    [][ExitRule(AfterDoors(level, input'), next')]_vars

\* the frame returned true: no guards, the Sword in hand, back in the entrance
\* zone after a walk into the room
C11_Witness ==
    /\ next = TRUE
    /\ frames > 2
    /\ level.player.item = Sword
    /\ Entrances(level, level.player) # {}

\* the player as the use_door call of door k finds it in the frame: after the
\* collision pass and the calls of the doors before k
FoundBy(lv, in, k) ==
    UseDoors(AfterCollide(lv, in).player, SubSeq(AfterCollide(lv, in).doors, 1, k - 1),
             AfterCollide(lv, in).enemies, in.dt, 1).player

\* door k as its use_door call finds it: its sound timer counted down
DoorTried(lv, in, k) ==
    [AfterCollide(lv, in).doors[k] EXCEPT !.playing = Decay(@, in.dt)]

\* the call on door k, which is closed and not the entrance, finds the player in
\* its capture zone without the Key
LockedOut(lv, in, k) ==
    /\ ~DoorTried(lv, in, k).entrance
    /\ DoorTried(lv, in, k).closed
    /\ Captured(FoundBy(lv, in, k), DoorTried(lv, in, k))
    /\ FoundBy(lv, in, k).item # Key

\* the call on door k rejects: the door stays closed and the player keeps its
\* room, position, health and item; the door pass leaves the door as the call did
Rejected(lv, in, k, found, r) ==
    /\ r.result = FALSE
    /\ r.door.closed
    /\ r.player.body.room = found.body.room
    /\ r.player.body.position = found.body.position
    /\ r.player.health = found.health
    /\ r.player.item = found.item
    /\ r.player = [found EXCEPT !.body.phrase = r.player.body.phrase]
    /\ r.door = [DoorTried(lv, in, k) EXCEPT !.playing = r.door.playing]
    /\ AfterDoors(lv, in).doors[k] = r.door

\* C12: in every frame in which the player stands in the capture zone of a
\* closed door that is not the entrance and does not hold the Key, the use_door
\* call leaves the door closed and the player's room, position, health and item
\* as they were; only the phrase and the door's sound timer change.  Being true
\* of every frame, it is true of every later frame the player stays in the zone.
C12_LockedDoorRejects ==
    [][\A k \in 1..Len(level.doors) :
          LockedOut(level, input', k)
          => Rejected(level, input', k, FoundBy(level, input', k),
                      use_door(FoundBy(level, input', k), DoorTried(level, input', k),
                               AfterCollide(level, input').enemies))]_vars

\* the player has stood at the closed door for three frames in a row: it rang in
\* the first, is still closed, and the player is still in the entry room
C12_Witness ==
    /\ level.player.item # Key
    /\ level.player.body.room = 0
    /\ \E k \in 1..Len(level.doors) :
          /\ ~level.doors[k].entrance
          /\ level.doors[k].closed
          /\ Captured(level.player, level.doors[k])
          /\ level.doors[k].playing = SECOND - 2 * Dt
    /\ level.player.body.phrase = Phrase("It's locked", SECOND - Dt)

\* the room ids door_from is asked about: the rooms of the configs, one more,
\* and the room outside the entrance
MaxRoom == 2
RoomIds == 0..MaxRoom \cup {OUTSIDE}

\* the opposite of a cardinal direction, as a table
Opposite == [d \in Direction |->
               IF d = North THEN South ELSE IF d = South THEN North
               ELSE IF d = East THEN West ELSE East]

\* what C13 says of one door
Reciprocal(door) ==
    door.from # door.to
    => /\ door_from(door, door.from) = [direction |-> door.direction, to |-> door.to]
       /\ door_from(door, door.to)
             = [direction |-> Opposite[door.direction], to |-> door.from]
       /\ \A c \in RoomIds \ {door.from, door.to} : door_from(door, c) = NoDoor

\* C13: for a door (A, B, d) with A # B, door_from(A) is (d, B), door_from(B) is
\* (inverse(d), A) and door_from(C) is None for every other room C; inverse
\* swaps North with South and East with West, and twice inverse is the identity.
\* So it is for every door over the room ids, closed or open, entrance or not,
\* and for every door of every reachable level.
C13_DoorReciprocity ==
    /\ \A d \in Direction : inverse(d) = Opposite[d] /\ inverse(inverse(d)) = d
    /\ \A a, b \in RoomIds, d \in Direction, closed, entrance \in BOOLEAN :
          Reciprocal(Door(a, b, d, closed, entrance))
    /\ \A k \in 1..Len(level.doors) : Reciprocal(level.doors[k])

\* the player has gone through the west door of the entry room and has come
\* back through it from the side room, where it is the east door
C13_Witness ==
    /\ plan = "hall"
    /\ level.player.body.room = 0
    /\ level.player.body.position[1] = UNIT \div 10
    /\ input.move[1] = 1

\* the rooms of a config that carry the enter marker
Marked(rooms) == {r \in 1..Len(rooms) : rooms[r].enter \in Direction}

\* C14: Level::load gives a level only when exactly one room config carries the
\* enter marker; with none or with two or more it panics and there is no level,
\* whatever the rooms' doors are.
C14_OneEntrance ==
    /\ loaded = "yes" => Cardinality(Marked(config)) = 1 /\ level # NoLevel
    /\ (loaded # "no" /\ Cardinality(Marked(config)) # 1)
       => loaded = "panic" /\ level = NoLevel

\* the load of a config of three rooms, two of them marked, has panicked
C14_Witness ==
    /\ loaded = "panic"
    /\ Len(config) = 3
    /\ Cardinality(Marked(config)) = 2

\* the doors room r of a config exposes, each as <<declaring room, number of the
\* door in its list, direction seen from r>>: the doors r declares, and the
\* doors another room declares to r, inverted
Exposed(rooms, r) ==
    {<<r, n, rooms[r].doors[n].direction>> : n \in 1..Len(rooms[r].doors)}
    \cup UNION {{<<k, n, Opposite[rooms[k].doors[n].direction]>> :
                    n \in {m \in 1..Len(rooms[k].doors) :
                              rooms[k].doors[m].to = rooms[r].id}} :
                 k \in 1..Len(rooms) \ {r}}

\* room r exposes two doors in one direction
Ambiguous(rooms, r) ==
    \E a, b \in Exposed(rooms, r) : a # b /\ a[3] = b[3]

\* C15 as stated: whenever some room of the config exposes two doors in the same
\* cardinal direction, Level::load panics and there is no level.
C15_AmbiguousDoorsFail ==
    (loaded # "no" /\ \E r \in 1..Len(config) : Ambiguous(config, r))
    => loaded = "panic" /\ level = NoLevel

\* rooms a and b of a config are joined by a door one of them declares
Linked(rooms, a, b) ==
    \/ \E n \in 1..Len(rooms[a].doors) : rooms[a].doors[n].to = rooms[b].id
    \/ \E n \in 1..Len(rooms[b].doors) : rooms[b].doors[n].to = rooms[a].id

RECURSIVE Grow(_, _)
Grow(rooms, set) ==
    IF \E a \in set, b \in 1..Len(rooms) : b \notin set /\ Linked(rooms, a, b)
    THEN Grow(rooms, set \cup {b \in 1..Len(rooms) :
                                 \E a \in set : Linked(rooms, a, b)})
    ELSE set

\* the rooms reachable from the marked room through doors taken either way
Reach(rooms) == Grow(rooms, Marked(rooms))

EnemiesIn(lv, id) == Cardinality({i \in 1..Len(lv.enemies) : lv.enemies[i].body.room = id})
CratesIn(lv, id) == Cardinality({i \in 1..Len(lv.crates) : lv.crates[i].room = id})

\* C16: after a successful load the instantiated rooms are the rooms reachable
\* from the entry room through door declarations taken in either direction, each
\* once: the level has as many enemies (crates) with room id r as r's config
\* has enemies (items) when r is reachable, and none when it is not.
C16_ReachableRoomsOnce ==
    loaded = "yes"
    => \A r \in 1..Len(config) :
          /\ EnemiesIn(level, config[r].id)
                = IF r \in Reach(config) THEN config[r].enemies ELSE 0
          /\ CratesIn(level, config[r].id)
                = IF r \in Reach(config) THEN Len(config[r].items) ELSE 0

\* a chain of three rooms has been loaded, the entry room first: it declares no
\* door, so both other rooms are reached through doors that point back
C16_Witness ==
    /\ loaded = "yes"
    /\ Len(config) = 3
    /\ Marked(config) = {1}
    /\ config[1].doors = <<>>
    /\ ~Linked(config, 1, 3)
    /\ Reach(config) = {1, 2, 3}
    /\ Len(level.enemies) = 3
    /\ Len(level.crates) = 3

\* the ball is inside the room inset by the wall thickness and its radius
InBounds(ball) ==
    /\ WALL_SIZE + BALL_RADIUS <= ball.position[1]
    /\ ball.position[1] <= RATIO_W_H - WALL_SIZE - BALL_RADIUS
    /\ WALL_SIZE + BALL_RADIUS <= ball.position[2]
    /\ ball.position[2] <= UNIT - WALL_SIZE - BALL_RADIUS

\* the ball overlaps the enemy: their centres coincide, or the centre distance
\* is less than the ball's radius plus the enemy's extent along the centre line
Overlaps(ball, enemy) ==
    LET diff == VSub(ball.position, enemy.body.position)
    IN  \/ diff = <<0, 0>>
        \/ length(diff) < BALL_RADIUS + direction_len(enemy.body.form, diff)

\* C17 as stated: at the end of every frame each ball of the level is inside the
\* bounds and overlaps no live enemy of its room.
C17_BallsRemoved ==
    frames > 0
    => \A b \in 1..Len(level.balls) :
          /\ InBounds(level.balls[b])
          /\ \A i \in LiveEnemies(level) :
                level.enemies[i].body.room = level.balls[b].room
                => ~Overlaps(level.balls[b], level.enemies[i])

\* the frame's input with R not pressed
NoRestart(in) == [in EXCEPT !.restart = FALSE]

\* some crate is in reach of the player with E pressed when swap_items is called
Swaps(lv, in) ==
    \E c \in {PhrasesStep(AfterBalls(lv, in), in)} :
       \E k \in 1..Len(c.crates) : CanSwap(c.crates[k], c.player, in)

\* what a frame does to the backup and the level, played being the level the
\* frame leaves with R not pressed
SnapshotRule(played, swaps) ==
    /\ backup' = IF swaps THEN played ELSE backup
    /\ level' = IF played.player.health = Dead /\ input'.restart THEN backup'
                ELSE played

\* C18: the backup is the loaded level until the first swap; a frame with a swap
\* sets it to the whole level as that frame leaves it and a frame without one
\* leaves it alone; a frame that ends with the player Dead and R pressed sets
\* the level to the backup, and R with the player not Dead changes nothing.
C18_BackupAndRestore ==
    /\ backup = level
    /\ [][SnapshotRule(AfterSwap(level, NoRestart(input')), Swaps(level, input'))]_vars

\* a frame with R pressed has set the level to a backup taken after a swap
C18_Witness ==
    /\ input.restart
    /\ ~input.interact
    /\ level = backup
    /\ level.player.item # Sword
    /\ level.player.health = Low
    /\ low_for = 0

\* the values of a speed counter and of an intent on one axis
Counters == -SPEED_STEPS..SPEED_STEPS
Intents == {-1, 0, 1}

\* the frames within which every counter has settled under a constant intent
Settle == 2 * SPEED_STEPS

\* the counter after n frames of the same intent
RECURSIVE SpeedAfter(_, _, _)
SpeedAfter(speed, d, n) ==
    IF n = 0 THEN speed ELSE SpeedAfter(SpeedAxis(speed, d), d, n - 1)

\* to is what one frame makes of the counter from under the intent d: 2*d is
\* added, the sum loses 1 of its magnitude unless it is 0, keeping its sign, and
\* the result is cut to the range of the counter
SpeedRule(from, d, to) ==
    \E decayed \in (-SPEED_STEPS - 2)..(SPEED_STEPS + 2) :
        /\ Abs(decayed) = (IF from + 2 * d = 0 THEN 0 ELSE Abs(from + 2 * d) - 1)
        /\ decayed * (from + 2 * d) >= 0
        /\ to = (IF decayed > SPEED_STEPS THEN SPEED_STEPS
                 ELSE IF decayed < -SPEED_STEPS THEN -SPEED_STEPS ELSE decayed)

\* with no intent the magnitude drops by 1 a frame down to 0, where it stays
Coasts(speed) ==
    \A n \in 0..Settle :
        /\ Abs(SpeedAfter(speed, 0, n)) = (IF n < Abs(speed) THEN Abs(speed) - n ELSE 0)
        /\ SpeedAfter(speed, 0, n) * speed >= 0

\* under a constant intent d the counter reaches d * SPEED_STEPS and stays there
Saturates(speed, d) ==
    /\ SpeedAxis(d * SPEED_STEPS, d) = d * SPEED_STEPS
    /\ \E n \in 0..Settle :
          \A m \in n..Settle : SpeedAfter(speed, d, m) = d * SPEED_STEPS

\* every body's counters in the level a frame leaves without a restore follow
\* the rule from the counters it began with, under the frame's move action
FrameSpeeds(lv, in, after) ==
    \A i \in 1..(Len(lv.enemies) + 1) :
        \A axis \in 1..2 :
            /\ ActionsStep(lv, in).actions[i].move_direction[axis] \in Intents
            /\ SpeedRule(Bodies(lv)[i].speed[axis],
                         ActionsStep(lv, in).actions[i].move_direction[axis],
                         Bodies(after)[i].speed[axis])

\* C19: one frame adds 2*d to a speed counter, moves it 1 toward zero without
\* crossing zero, and clamps it to [-SPEED_STEPS, SPEED_STEPS]; under intent 0
\* the magnitude drops by 1 a frame, reaches 0 within SPEED_STEPS frames and
\* stays 0; under a constant intent +1 or -1 the counter reaches +SPEED_STEPS
\* or -SPEED_STEPS and stays there; so for every counter and intent, and for
\* every body in every frame.
C19_SpeedUpdate ==
    /\ \A speed \in Counters :
          /\ \A d \in Intents : SpeedRule(speed, d, SpeedAxis(speed, d))
          /\ Coasts(speed)
          /\ SpeedAfter(speed, 0, SPEED_STEPS) = 0
          /\ Saturates(speed, 1)
          /\ Saturates(speed, -1)
    /\ [][~Restores(AfterSwap(level, input'), input')
            => FrameSpeeds(level, input', level')]_vars

\* the player coasts: no intent on the first axis and the counter not yet at 0
C19_Witness ==
    /\ frames > 1
    /\ input.move[1] = 0
    /\ level.player.health # Dead
    /\ level.player.body.speed[1] # 0

\* the required separation of two bodies: the sum of their extents along the
\* line through their centres
Separation(left, right) ==
    FAdd(direction_len(left.form, VSub(left.position, right.position)),
         direction_len(right.form, VSub(left.position, right.position)))

\* strictly inside the wall limits of the form: the wall clamp has not acted
ClearOfWalls(body) ==
    /\ WALL_SIZE + x_r(body.form) < body.position[1]
    /\ body.position[1] < RATIO_W_H - WALL_SIZE - x_r(body.form)
    /\ WALL_SIZE + y_r(body.form) < body.position[2]
    /\ body.position[2] < UNIT - WALL_SIZE - y_r(body.form)

\* bodies i and j of the moved level overlap with nothing else involved: they
\* are the only bodies of their room, no crate of the room reaches either, and
\* collide leaves both clear of the walls
IsolatedPair(moved, collided, i, j) ==
    /\ i # j
    /\ Bodies(moved)[i].room = Bodies(moved)[j].room
    /\ \A k \in 1..Len(Bodies(moved)) :
          Bodies(moved)[k].room = Bodies(moved)[i].room => k \in {i, j}
    /\ \A c \in 1..Len(moved.crates) :
          /\ CrateShift(Bodies(moved)[i], moved.crates[c]) = <<0, 0>>
          /\ CrateShift(Bodies(moved)[j], moved.crates[c]) = <<0, 0>>
    /\ Bodies(moved)[i].position # Bodies(moved)[j].position
    /\ Separation(Bodies(moved)[i], Bodies(moved)[j]) # NaN
    /\ Separation(Bodies(moved)[i], Bodies(moved)[j])
          > length(VSub(Bodies(moved)[i].position, Bodies(moved)[j].position))
    /\ ClearOfWalls(Bodies(collided)[i])
    /\ ClearOfWalls(Bodies(collided)[j])

\* body left has moved away from right by half of the penetration along the
\* centre line, up to Eps on each axis
MovedHalf(left, right, after) ==
    LET diff == VSub(left.position, right.position)
        penetration == Separation(left, right) - length(diff)
    IN  \A axis \in 1..2 :
           Abs((after.position[axis] - left.position[axis])
               - TruncDiv(diff[axis] * penetration, 2 * length(diff))) <= Eps

\* C20 as stated: collide moves each body of an isolated overlapping pair by
\* half of the penetration, in opposite directions along the centre line, and
\* their distance afterwards is the required separation.
C20_HalfEach ==
    [][\A m \in {AfterMove(level, input')} : \A c \in {CollideStep(m)} :
          \A i, j \in 1..Len(Bodies(m)) :
             IsolatedPair(m, c, i, j)
             => /\ MovedHalf(Bodies(m)[i], Bodies(m)[j], Bodies(c)[i])
                /\ MovedHalf(Bodies(m)[j], Bodies(m)[i], Bodies(c)[j])
                /\ Abs(length(VSub(Bodies(c)[i].position, Bodies(c)[j].position))
                       - Separation(Bodies(m)[i], Bodies(m)[j])) <= Eps]_vars

\* C21 as stated: an enemy that is Dead when its action is evaluated in a frame
\* has the perception state Idle after the frame's actions.
C21_DeadIsIdle ==
    [][\A i \in 1..Len(level.enemies) :
          level.enemies[i].health = Dead
          => AfterActions(level, input').enemies[i].state = Idle]_vars

\* C22: the enemies whose melee hit happens in a frame are alive, are in Fight
\* after the frame's transition and are in the player's room; the player's
\* health after the actions is its health after player_action lowered once for
\* each of them, so no other enemy (Dead, Idle, LastSeen, or in another room)
\* lowers it.
C22_OnlyFightersHit ==
    [][/\ \A i \in Hitters(level, input') :
             /\ level.enemies[i].health # Dead
             /\ AfterActions(level, input').enemies[i].state.tag = "Fight"
             /\ level.enemies[i].body.room = level.player.body.room
       /\ AfterActions(level, input').player.health
             = DecreaseTimes(player_action(level.player, level.balls, input').player.health,
                             Cardinality(Hitters(level, input')))]_vars

\* an enemy in Fight has hit the player in the frame while another enemy of the
\* room, not in reach, has not
C22_Witness ==
    /\ level.player.health = Low
    /\ \E i, j \in LiveEnemies(level) :
          /\ level.enemies[i].state.tag = "Fight"
          /\ level.enemies[i].reload = PLAYER_RELOAD - input.dt
          /\ level.enemies[j].reload = 0

\* enemy i has the player in reach when its action is evaluated: it is alive,
\* the player it sees is not Dead and in contact, and the centre distance is
\* less than the two extents along the centre line plus SLASH_LEN
InReach(lv, in, i) ==
    \E seen \in {SeenBy(lv, in, i)} : \E diff \in {VSub(seen.body.position, lv.enemies[i].body.position)} :
        /\ lv.enemies[i].health # Dead
        /\ seen.health # Dead
        /\ Contact(lv.enemies[i], seen)
        /\ FLess(length(diff),
                 FAdd(FAdd(direction_len(lv.enemies[i].body.form, diff),
                           direction_len(seen.body.form, diff)),
                      SLASH_LEN))

\* the player as the enemies up to i have left it
LeftBy(lv, in, i) == SeenBy(lv, in, i + 1)

\* C23: enemy i hits exactly when it has the player in reach and its reload
\* timer is exactly 0: then the timer is PLAYER_RELOAD after its action and the
\* player's health is one step lower; otherwise its action leaves the timer and
\* the player's health as they were.
C23_HitWhenReloaded ==
    [][\A i \in 1..Len(level.enemies) :
          IF InReach(level, input', i) /\ level.enemies[i].reload = 0
          THEN /\ AfterActions(level, input').enemies[i].reload = PLAYER_RELOAD
               /\ LeftBy(level, input', i).health
                     = decrease(SeenBy(level, input', i).health)
               /\ LeftBy(level, input', i).health # SeenBy(level, input', i).health
          ELSE /\ AfterActions(level, input').enemies[i].reload = level.enemies[i].reload
               /\ LeftBy(level, input', i).health = SeenBy(level, input', i).health]_vars

\* an enemy that hit the player two frames ago is in Fight and in reach of the
\* player it last saw, its timer still running, and the player is still Low
C23_Witness ==
    /\ level.player.health = Low
    /\ input.dt = Dt
    /\ \E i \in LiveEnemies(level) :
          /\ level.enemies[i].reload = PLAYER_RELOAD - 2 * Dt
          /\ slash(level.enemies[i])

\* C24 as stated: a door whose closed flag is false never has it true again.
C24_OpenForever ==
    [][\A k \in 1..Len(level.doors) :
          ~level.doors[k].closed => ~level'.doors[k].closed]_vars

\* C24 amended: in a frame that does not restore the backup (the player Dead at
\* the frame's end and R pressed) no door's closed flag goes from false to true.
C24_OpenUntilRestore ==
    [][~(AfterSwap(level, input').player.health = Dead /\ input'.restart)
       => \A k \in 1..Len(level.doors) :
             ~level.doors[k].closed => ~level'.doors[k].closed]_vars

\* the player has opened with the key a door that the backup holds closed
C24_Witness ==
    /\ level.player.item = Key
    /\ \E k \in 1..Len(level.doors) :
          /\ ~level.doors[k].closed
          /\ backup.doors[k].closed
          /\ level.player.body.room = level.doors[k].to

\* the coordinate c mirrored in a room of extent bound and kept a tenth of the
\* room height away from both walls
Flipped(c, bound) ==
    IF bound - c < UNIT \div 10 THEN UNIT \div 10
    ELSE IF bound - c > bound - UNIT \div 10 THEN bound - UNIT \div 10
    ELSE bound - c

\* the player was taken through the door from where before stood to after
PassedThrough(door, before, after) ==
    \E d \in {door_from(door, before.body.room)} :
        /\ after.body.room = d.to
        /\ after.body.position
              = (IF d.direction \in {North, South}
                 THEN <<before.body.position[1], Flipped(before.body.position[2], UNIT)>>
                 ELSE <<Flipped(before.body.position[1], RATIO_W_H), before.body.position[2]>>)
        /\ after.health = before.health
        /\ after.item = before.item
        /\ door_from(door, after.body.room) # NoDoor
        /\ door_from(door, after.body.room).to = before.body.room
        /\ door_from(door, after.body.room).direction = Opposite[d.direction]

\* C25: when the door step finds the player in the capture zone of a door that
\* is not the entrance and is open, or closed with the player holding the Key,
\* it puts the player in the room at the door's other end with only the
\* coordinate on the door's axis mirrored and clamped to [0.1, bound - 0.1];
\* the other coordinate, the health and the held item (the Key too) are as
\* before, and from the new room the same door leads back to the old one.
C25_DoorPass ==
    [][\A k \in 1..Len(level.doors) :
          (/\ ~level.doors[k].entrance
           /\ Captured(AfterCollide(level, input').player, level.doors[k])
           /\ (~level.doors[k].closed \/ level.player.item = Key))
          => PassedThrough(level.doors[k], AfterCollide(level, input').player,
                           AfterDoors(level, input').player)]_vars

\* the player has come through the closed west door with the Key, which it
\* still holds, and stands a tenth of the room height from the east wall of the
\* side room
C25_Witness ==
    /\ level.player.item = Key
    /\ level.player.body.room = 1
    /\ level.player.body.position[1] = RATIO_W_H - UNIT \div 10
    /\ input.move = <<-1, 0>>
    /\ \E k \in 1..Len(level.doors) :
          ~level.doors[k].entrance /\ ~level.doors[k].closed /\ backup.doors[k].closed

\* C26: the door step leaves the player where it was, or where one single door
\* that captured it leads: no second door of the list moves it on.
C26_OneDoorPerFrame ==
    [][\/ /\ level'.player.body.room = level.player.body.room
          /\ level'.player.body.position = level.player.body.position
       \/ \E k \in 1..Len(level.doors) :
             /\ Captured(level.player, level.doors[k])
             /\ PassedThrough(level.doors[k], level.player, level'.player)]_vars

\* the player has gone through the first door of the list and the second door
\* leaves the room it has come to, on the side the player has come in
C26_Witness ==
    /\ frames = 1
    /\ plan = "none"
    /\ level.player.body.room = level.doors[1].to
    /\ level.doors[2].from = level.player.body.room
    /\ level.doors[2].direction = inverse(level.doors[1].direction)

\* the doors of the level that show direction d from room r
Showing(lv, r, d) ==
    {k \in 1..Len(lv.doors) :
        door_from(lv.doors[k], r) # NoDoor /\ door_from(lv.doors[k], r).direction = d}

\* C27 as stated: in every level Level::load returns, no two doors of the door
\* list (the entrance door included) show the same direction from the same room.
C27_OneDoorPerSide ==
    loaded = "yes"
    => \A r \in RoomIds : \A d \in Direction : Cardinality(Showing(level, r, d)) <= 1

\* the doors of the level with the entrance flag
EntranceDoors(lv) == {k \in 1..Len(lv.doors) : lv.doors[k].entrance}

\* C28 as stated: in the level Level::load returns, the player's room and the
\* from-room of the entrance door are the id of the one room config with the
\* enter marker; that door is the only one with the entrance flag and leads to
\* the sentinel id 255.
C28_EntryRoom ==
    loaded = "yes"
    => \A r \in Marked(config) :
          /\ level.player.body.room = config[r].id
          /\ Cardinality(EntranceDoors(level)) = 1
          /\ \A k \in EntranceDoors(level) :
                /\ level.doors[k].from = config[r].id
                /\ level.doors[k].to = OUTSIDE

\* the level the ball step of the frame starts from
BeforeBalls(lv, in) == ReloadStep(AfterDoors(lv, in), in)

\* the live enemies of the ball's room that the ball, advanced by dt, overlaps
Struck(lv, ball, dt) ==
    {i \in LiveEnemies(lv) :
        /\ lv.enemies[i].body.room = ball.room
        /\ Overlaps(AdvanceBall(ball, dt), lv.enemies[i])}

\* the enemies whose health the ball step has changed
Damaged(before, after) ==
    {i \in 1..Len(before.enemies) : after.enemies[i].health # before.enemies[i].health}

\* what the ball step does with one ball in flight: with no enemy struck it
\* changes no enemy's health; else the first struck enemy in list order is one
\* step lower, no other enemy is changed, and the ball is gone
OneBallRule(before, after, dt) ==
    \E struck \in {Struck(before, before.balls[1], dt)} :
        IF struck = {}
        THEN Damaged(before, after) = {}
        ELSE \E i \in struck :
                /\ \A j \in struck : i <= j
                /\ Damaged(before, after) = {i}
                /\ after.enemies[i].health = decrease(before.enemies[i].health)
                /\ after.balls = <<>>

\* C29 as stated: in a frame's ball step the balls that are removed are at
\* least as many as the enemies whose health changes, and a single ball in
\* flight lowers the first live enemy of its room that it overlaps, in list
\* order, by one step, lowers no other and is removed.
C29_OneTargetPerBall ==
    [][\A b \in {BeforeBalls(level, input')} : \A a \in {BallsStep(b, input')} :
          /\ Cardinality(Damaged(b, a)) <= Len(b.balls) - Len(a.balls)
          /\ Len(b.balls) = 1 => OneBallRule(b, a, input'.dt)]_vars

\* a timer dt later: lower by dt, and 0 from where that would pass 0
Down(timer, dt) == IF timer > dt THEN timer - dt ELSE 0

\* no timer of the level is below 0 and no body carries a phrase whose time
\* has run out
TimersRunning(lv) ==
    /\ lv.player.reload >= 0
    /\ \A i \in 1..Len(lv.enemies) : lv.enemies[i].reload >= 0
    /\ \A k \in 1..Len(lv.doors) : lv.doors[k].playing >= 0
    /\ \A phrase \in {lv.player.body.phrase} \cup
                     {lv.enemies[i].body.phrase : i \in 1..Len(lv.enemies)} :
          phrase # NoPhrase => phrase.time > 0

\* the phrase a body ends the frame with, said being the phrase it has when the
\* phrases are updated
PhraseLeft(said, dt) ==
    IF said = NoPhrase \/ said.time <= dt THEN NoPhrase ELSE [said EXCEPT !.time = @ - dt]

\* what a frame does to the timers: armed is the level as enemy_action and
\* player_action leave it, said the level whose phrases are updated, played the
\* level at the end of the frame before the last statement's restore
TimersDecay(lv, armed, said, played, dt) ==
    /\ armed.player.reload \in {lv.player.reload, PLAYER_RELOAD}
    /\ played.player.reload = Down(armed.player.reload, dt)
    /\ \A i \in 1..Len(lv.enemies) :
          /\ armed.enemies[i].reload \in {lv.enemies[i].reload, PLAYER_RELOAD}
          /\ played.enemies[i].reload = Down(armed.enemies[i].reload, dt)
          /\ said.enemies[i].health # Dead =>
                played.enemies[i].body.phrase = PhraseLeft(said.enemies[i].body.phrase, dt)
    /\ said.player.health # Dead =>
          played.player.body.phrase = PhraseLeft(said.player.body.phrase, dt)
    /\ \A k \in 1..Len(lv.doors) :
          \/ played.doors[k].playing = Down(lv.doors[k].playing, dt)
          \/ Down(lv.doors[k].playing, dt) = 0 /\ played.doors[k].playing = 1 * SECOND

\* C30: at the end of every frame every reload timer and every door's feedback
\* timer is at least 0 and no phrase is left with a time of 0 or less; in a
\* frame each timer goes down by dt from the value it has or is set to in that
\* frame, to exactly 0 where dt would take it past 0, and a phrase whose time
\* runs out is removed in that frame.
C30_TimersDecay ==
    [][/\ TimersRunning(level) /\ TimersRunning(level')
       /\ \E armed \in {AfterActions(level, input')} :
          \E said \in {AfterBalls(level, input')} :
          \E played \in {AfterSwap(level, input')} :
             TimersDecay(level, armed, said, played, input'.dt)]_vars

\* a timer has been stopped at 0 by a frame longer than what was left of it: the
\* third frame after a throw, the reload of 0.5 s gone in steps of 0.2 s, while
\* an enemy's phrase is still running
C30_Witness ==
    /\ plan = "bullseye" /\ frames = 4 /\ input.dt = Dt
    /\ level.player.reload = 0
    /\ \E i \in 1..Len(level.enemies) :
          level.enemies[i].body.phrase # NoPhrase /\ level.enemies[i].body.phrase.time > 0

\* C31 as stated: a frame's health changes come after its door step; the
\* player and every enemy leave the door step with the health they entered
\* the frame with.
C31_HealthAfterDoors ==
    [][\E d \in {AfterDoors(level, input')} :
          \A a \in Actors : HealthOf(d, a) = HealthOf(level, a)]_vars

\* the level with the bodies of its Dead enemies taken out of every room
Buried(lv) ==
    [lv EXCEPT !.enemies = [i \in 1..Len(lv.enemies) |->
                              IF lv.enemies[i].health = Dead
                              THEN [lv.enemies[i] EXCEPT !.body.room = 0 - 1]
                              ELSE lv.enemies[i]]]

\* C32 as stated: the collision pass puts the player and every live enemy where
\* it would put them if the Dead enemies' bodies were not there.
C32_DeadDoNotBlock ==
    [][\E m \in {AfterMove(level, input')} :
       \E with \in {CollideStep(m)} : \E without \in {CollideStep(Buried(m))} :
          /\ with.player.body.position = without.player.body.position
          /\ \A i \in LiveEnemies(m) :
                with.enemies[i].body.position = without.enemies[i].body.position]_vars

\* C33 as stated: the backup never holds a Dead player, and the level a restore
\* leaves has a player that is alive.
C33_BackupAlive ==
    /\ backup.player.health # Dead
    /\ (input.restart /\ level = backup) => level.player.health # Dead

\* C34 as stated: update_level does not return true in a frame that ends with
\* the player Dead.
C34_NoExitWhenDead == next => level.player.health # Dead

\* C35: a live enemy whose enemy_action finds the player Dead leaves it in state
\* Idle with the phrase and the reload timer it had, and leaves the player as
\* it found it: no melee hit lands on a player who is already Dead.
C35_DeadPlayerLeftAlone ==
    [][\E a \in {AfterActions(level, input')} :
          \A i \in LiveEnemies(level) :
             SeenBy(level, input', i).health = Dead =>
                /\ a.enemies[i].state = Idle
                /\ a.enemies[i].body.phrase = level.enemies[i].body.phrase
                /\ a.enemies[i].reload = level.enemies[i].reload
                /\ LeftBy(level, input', i) = SeenBy(level, input', i)]_vars

\* the frame of the killing blow with a second enemy after the killer in the
\* list: the killer's reload timer was set in this frame, the other enemy has
\* left its post after the player and is Idle with its timer at 0
C35_Witness ==
    /\ frames > 0
    /\ level.player.health = Dead
    /\ \E i, j \in LiveEnemies(level) :
          /\ i < j
          /\ level.enemies[i].reload = PLAYER_RELOAD - input.dt
          /\ level.enemies[j].state = Idle
          /\ level.enemies[j].reload = 0
          /\ level.enemies[j].body.position # level.enemies[j].post

\* the heal timer of a player: the whole heal time while Full, and some of it
\* left while Low
HealTimerSet(player) ==
    /\ player.health = Full => player.heal_time = HEAL_TIME
    /\ player.health = Low => 0 < player.heal_time /\ player.heal_time <= HEAL_TIME

Items(lv) == <<lv.player.item>> \o [k \in 1..Len(lv.crates) |-> lv.crates[k].item]

\* how often the item is held or crated
Copies(items, item) == Cardinality({k \in 1..Len(items) : items[k] = item})

\* the crates the player can swap with when swap_items is called on lv
InHand(lv, in) ==
    {k \in 1..Len(lv.crates) :
        /\ lv.crates[k].room = lv.player.body.room
        /\ in.interact
        /\ CanSwap(lv.crates[k], lv.player, in)}

\* the crates whose item differs between the two levels
Changed(before, after) ==
    {k \in 1..Len(before.crates) : after.crates[k].item # before.crates[k].item}

\* what a frame does to the items: met is the level swap_items is called on,
\* played the level it leaves
ItemRule(lv, met, played, in) ==
    /\ Items(met) = Items(lv)
    /\ \A item \in {Items(lv)[k] : k \in 1..Len(Items(lv))} :
          Copies(Items(played), item) = Copies(Items(lv), item)
    /\ IF InHand(met, in) = {}
       THEN Items(played) = Items(lv)
       ELSE \E k \in InHand(met, in) :
               /\ played.player.item = lv.crates[k].item
               /\ played.crates[k].item = lv.player.item
               /\ Changed(lv, played) \subseteq {k}
               /\ Items(SwapStep(played, in).level) = Items(lv)

\* C37: in every frame, up to the frame's restore, no step before swap_items
\* changes a held or crated item (a throw keeps the held item); swap_items
\* exchanges the player's item with the item of one crate of the player's room
\* in reach when E is pressed, and changes no other crate; every item is held
\* or crated as often as before; a second swap with the same input gives both
\* items back.
C37_Swap ==
    [][\E met \in {PhrasesStep(AfterBalls(level, input'), input')} :
       \E played \in {AfterSwap(level, input')} :
          ItemRule(level, met, played, input')]_vars

\* two crates were in reach at once with E pressed: the player holds the first
\* crate's carrot, the first crate the player's sword, the second its key
C37_Witness ==
    /\ plan = "pick" /\ frames = 1 /\ input.interact
    /\ Items(level) = <<Vegetable("carrot"), Sword, Key>>
    /\ InHand(level, input) = {1, 2}

\* C38 as stated: whenever a ball is in flight, a frame comes after which no
\* ball is in flight.
C38_BallsLeave == (level.balls # <<>>) ~> (level.balls = <<>>)

\* what player_action does with the balls and the reload timer: acted is the
\* level as it leaves the frame's actions
ThrowRule(lv, acted, in) ==
    \E thrown \in {Len(acted.balls) - Len(lv.balls)} :
       /\ thrown \in {0, 1}
       /\ SubSeq(acted.balls, 1, Len(lv.balls)) = lv.balls
       /\ thrown = 1 <=> /\ lv.player.health # Dead
                         /\ acted.player.visible
                         /\ in.attack
                         /\ IsVegetable(lv.player.item)
                         /\ lv.player.reload = 0
       /\ thrown = 1 => acted.player.reload = PLAYER_RELOAD
       /\ thrown = 0 => acted.player.reload = lv.player.reload

\* C39: a frame adds at most one ball, and adds one exactly when the player is
\* not Dead, is visible, attack is held, the held item is a vegetable and the
\* reload timer is exactly 0; the throw sets the reload timer to PLAYER_RELOAD,
\* and a frame without a throw (also an attack with Sword or Key) leaves the
\* timer to the decay alone.
C39_Throw ==
    [][\E acted \in {AfterActions(level, input')} : ThrowRule(level, acted, input')]_vars

\* the frame after a throw with attack still held: the ball of the throw is in
\* flight, the timer is running and no second ball was added
C39_Witness ==
    /\ input.attack
    /\ Len(level.balls) = 1
    /\ level.player.visible
    /\ IsVegetable(level.player.item)
    /\ level.player.reload = PLAYER_RELOAD - 2 * Dt

\* C40: Scene::update carries the scene through its cards: a call never fails,
\* whatever move_forward it is given and however often it is called.
C40_UpdateNeverFails == done # "panic"

====
